---------------------------- MODULE Spec2Model ----------------------------
(***************************************************************************)
(* CP (circuit probe) log analyzer: ingestion, limit aggregation, unit     *)
(* normalization, cleaning and batch driver.                               *)
(*                                                                         *)
(* Floating point numbers are modelled as exact decimals m * 10^e, kept    *)
(* normalized (no trailing zero in m), so that scaling by 1000, 1e6, 1e9,  *)
(* 1.5 and 0.5 and every magnitude comparison of the code is computed      *)
(* exactly.                                                                *)
(***************************************************************************)
EXTENDS Integers, Sequences, FiniteSets, TLC

VARIABLES
    n_param,      \* unit normalizer: the parameter of the column being normalized
    n_limit,      \* unit normalizer: the upper limit handed to adjust_unit
    n_raw,        \* unit normalizer: the value before the first pass
    n_value,      \* unit normalizer: the value currently held in clean_data
    n_passes,     \* unit normalizer: number of normalizing passes run so far
    f_param_names,\* _parse_file: param_names, the non-empty fields of the header row
    f_limit_u,    \* _parse_file: tokens of the upper limit row (<<>>: row not found)
    f_limit_l,    \* _parse_file: tokens of the lower limit row (<<>>: row not found)
    limits,       \* _parse_file: the limits dictionary of this file
    param_units,  \* _parse_file: the unit recorded per parameter for this file
    f_lines,      \* _parse_file: the lines read so far from data_start_idx on
    data_records, \* _parse_file: the records appended so far
    f_pc,         \* _parse_file: "idle", "scan" (in the data loop) or "done"
    a_param,      \* parse_all_files: the parameter the batch's limit rows state
    file_ok,      \* parse_all_files: per file, whether it can be read and tokenized
    file_limits,  \* parse_all_files: per file, the limits _parse_file returned
    all_limits,   \* parse_all_files: the aggregated limits
    file_records, \* parse_all_files: per file, the records _parse_file returned
    all_records,  \* parse_all_files: the records collected so far
    a_dataset,    \* parse_all_files: the rows of the returned DataFrame
    a_pc,         \* parse_all_files: "idle", "limits", "defaults", "records",
                  \* "returned" (a dataset) or "failed" (None, None)
    c_param,      \* cleaner: the parameter column of the table
    c_loaded,     \* cleaner: whether raw_data is set (load_data succeeded)
    raw_data,     \* cleaner: the parameter column of raw_data, one value per row
    c_limits,     \* cleaner: the limits of the parameter
    clean_data,   \* cleaner: the table stored by clean() (<<>> while None)
    c_returned,   \* cleaner: the table returned by the last call
    c_result,     \* cleaner: "pending", "table" or "none" (the call returned None)
    c_strategy,   \* cleaner: what the last call was
    batch_dirs,   \* main: the batch directories found, in processing order
    m_results,    \* main: what process_batch returned for the batches so far
    success_count, \* main: number of batches for which it returned True
    m_exit,       \* main: the exit status (-1 while running)
    m_pc,         \* main: "idle", "loop" or "done"
    s_column,     \* analyzer: "none" (no df_clean), "absent" (the parameter is
                  \* not a column) or "present"
    s_rows,       \* analyzer: the rows of df_clean, wafer and parameter value
    s_overall,    \* analyzer: the overall bucket of the returned statistics
    s_by_lot,     \* analyzer: the per-wafer buckets of the returned statistics
    s_pc,         \* analyzer: "idle", "ready", "stats" (statistics returned) or
                  \* "none" (None returned)
    l_lines,      \* data-start search: the lines of the file
    l_header,     \* data-start search: params_line_idx, 1-based (0 while None)
    l_start,      \* data-start search: data_start_idx, 1-based (0 while None)
    l_i,          \* data-start search: the index of the running loop
    l_records,    \* data-start search: the line each appended record came from
    l_pc,         \* data-start search: "idle", "ready", "locate", "data",
                  \* "done" or "empty" (returned [], {})
    p_tok,        \* limit parser: limit_str, the field handed to the parser
    p_param,      \* limit parser: param_name
    p_result,     \* limit parser: the (value, unit) pair returned
    p_pc,         \* limit parser: "idle", "ready" or "returned"
    j_param,      \* adjust_json_file: the parameter named by the file
    j_limit,      \* adjust_json_file: the LimitU the records carry
    j_raw,        \* adjust_json_file: the parameter values as loaded
    j_items,      \* adjust_json_file: the records (value, LimitU present, Unit)
    j_target,     \* adjust_json_file: target_unit ("" while undecided)
    j_pc,         \* adjust_json_file: "idle", "ready", "skipped" or "done"
    w_lines,      \* limit-row search: per line, the limit markers it contains
                  \* (line 1 is the header row)
    w_i,          \* limit-row search: the index of the running loop
    w_upper,      \* limit-row search: limit_u_idx, 1-based (0 while None)
    w_lower,      \* limit-row search: limit_l_idx, 1-based (0 while None)
    w_pc,         \* limit-row search: "idle", "scan" or "done"
    x_param,      \* export: the target parameter of the column
    x_upper,      \* export: limits[param]['upper'] (NONE when there is none)
    x_raw,        \* export: the parameter column of raw_data
    x_clean,      \* export: the parameter column of clean_data after clean()
    x_records,    \* export: the records written for the parameter, each with
                  \* the row it came from and the value written
    x_pc,         \* export: "idle", "loaded", "cleaned", "failed" or "exported"
    h_header,     \* misaligned file: the fields of the header line
    h_names,      \* misaligned file: param_names
    h_limit_u,    \* misaligned file: the fields of the upper limit row
    h_limit_l,    \* misaligned file: the fields of the lower limit row
    h_limits,     \* misaligned file: the limits dictionary
    h_units,      \* misaligned file: param_units
    h_lines,      \* misaligned file: the data lines read so far
    h_records,    \* misaligned file: data_records
    h_pc          \* misaligned file: "idle", "scan" or "done"

nvars == <<n_param, n_limit, n_raw, n_value, n_passes>>
fvars == <<f_param_names, f_limit_u, f_limit_l, limits, param_units, f_lines,
           data_records, f_pc>>
avars == <<a_param, file_ok, file_limits, all_limits, file_records, all_records,
           a_dataset, a_pc>>
cvars == <<c_param, c_loaded, raw_data, c_limits, clean_data, c_returned, c_result,
           c_strategy>>
mvars == <<batch_dirs, m_results, success_count, m_exit, m_pc>>
svars == <<s_column, s_rows, s_overall, s_by_lot, s_pc>>
lvars == <<l_lines, l_header, l_start, l_i, l_records, l_pc>>
pvars == <<p_tok, p_param, p_result, p_pc>>
jvars == <<j_param, j_limit, j_raw, j_items, j_target, j_pc>>
wvars == <<w_lines, w_i, w_upper, w_lower, w_pc>>
xvars == <<x_param, x_upper, x_raw, x_clean, x_records, x_pc>>
hvars == <<h_header, h_names, h_limit_u, h_limit_l, h_limits, h_units, h_lines,
           h_records, h_pc>>
vars == <<nvars, fvars, avars, cvars, mvars, svars, lvars, pvars, jvars, wvars, xvars, hvars>>

-----------------------------------------------------------------------------
(* Decimal numbers *)

\* Python's None for a number (a normalized decimal never has m = 0, e = 1)
NONE == [m |-> 0, e |-> 1]

\* Python's None for a unit string
NoUnit == "None"

Abs(i) == IF i < 0 THEN -i ELSE i

RECURSIVE Pow10(_)
Pow10(k) == IF k <= 0 THEN 1 ELSE 10 * Pow10(k - 1)

RECURSIVE Digits(_)
Digits(i) == IF Abs(i) < 10 THEN 1 ELSE 1 + Digits(Abs(i) \div 10)

RECURSIVE Dec(_, _)
Dec(m, e) ==
    IF m = 0 THEN [m |-> 0, e |-> 0]
    ELSE IF m % 10 = 0 THEN Dec(m \div 10, e + 1)
    ELSE [m |-> m, e |-> e]

Zero == Dec(0, 0)

\* position of the decimal point: |x| lies in [10^(Decpt-1), 10^Decpt)
Decpt(x) == x.e + Digits(x.m)

\* x < y for two positive decimals
PosLt(x, y) ==
    IF Decpt(x) # Decpt(y) THEN Decpt(x) < Decpt(y)
    ELSE LET lo == IF x.e < y.e THEN x.e ELSE y.e
         IN  x.m * Pow10(x.e - lo) < y.m * Pow10(y.e - lo)

Neg(x) == [m |-> -x.m, e |-> x.e]

Lt(x, y) ==
    CASE x.m = 0 /\ y.m = 0 -> FALSE
      [] x.m <= 0 /\ y.m > 0 -> TRUE
      [] x.m < 0 /\ y.m = 0 -> TRUE
      [] x.m >= 0 /\ y.m <= 0 -> FALSE
      [] x.m > 0 /\ y.m > 0 -> PosLt(x, y)
      [] x.m < 0 /\ y.m < 0 -> PosLt(Neg(y), Neg(x))

Gt(x, y) == Lt(y, x)
Le(x, y) == ~Lt(y, x)
Ge(x, y) == ~Lt(x, y)

\* x * 10^k
Shift(x, k) == IF x.m = 0 THEN Zero ELSE [m |-> x.m, e |-> x.e + k]

\* x * c for a small integer c
Times(x, c) == Dec(x.m * c, x.e)

-----------------------------------------------------------------------------
(* unit_adjuster.py *)

\* A limit as handed to parse_limit_value: a float (unit = "", rendered by
\* str()) or a string made of a plain decimal literal and a unit suffix.
LimitTok(num, unit) == [num |-> num, unit |-> unit]

\* str(float) switches to exponent notation when the decimal point position
\* is <= -4 or > 16 ("2.5e-07"); strings keep their literal as written.
UsesExponent(tok) ==
    tok.unit = "" /\ tok.num.m # 0 /\ (Decpt(tok.num) <= -4 \/ Decpt(tok.num) > 16)

\* the coefficient d.ddd of the exponent notation of x
Coefficient(x) == Dec(x.m, -(Digits(x.m) - 1))

\* str.lower() on the unit spellings of the model
Lower(u) ==
    CASE u = "mOHM" -> "mohm"
      [] u = "OHM" -> "ohm"
      [] u = "V" -> "v"
      [] u = "mV" -> "mv"
      [] u = "A" -> "a"
      [] u = "mA" -> "ma"
      [] u = "uA" -> "ua"
      [] u = "nA" -> "na"
      [] OTHER -> u

\* the alias table of parse_limit_value, applied to the lower-cased suffix
NormalizeUnit(u) ==
    CASE Lower(u) \in {"ohm", "ohms"} -> "ohm"
      [] Lower(u) \in {"mohm", "mohms", "milliohm", "milliohms"} -> "mohm"
      [] Lower(u) \in {"v", "volt", "volts"} -> "v"
      [] Lower(u) \in {"mv", "mvolt", "mvolts", "millivolt", "millivolts"} -> "mv"
      [] Lower(u) \in {"a", "amp", "amps", "ampere", "amperes"} -> "a"
      [] Lower(u) \in {"ma", "mamp", "mamps", "milliamp", "milliamps"} -> "ma"
      [] Lower(u) \in {"ua", "uamp", "uamps", "microamp", "microamps"} -> "ua"
      [] Lower(u) \in {"na", "namp", "namps", "nanoamp", "nanoamps"} -> "na"
      [] OTHER -> Lower(u)

\* The regex takes the first plain decimal literal and the letters that follow
\* it: in exponent notation that is the coefficient and the letter "e".
parse_limit_value(tok) ==
    IF UsesExponent(tok)
    THEN [value |-> Coefficient(tok.num), unit |-> "e"]
    ELSE [value |-> tok.num, unit |-> NormalizeUnit(tok.unit)]

\* Python's `s in unit` on the unit names parse_limit_value can return here
Contains(unit, s) == unit = s /\ s \in {"mohm", "na", "ua", "mv"}

LeakageParams == {"IDSS1", "IDSS2", "IGSS2", "IGSSR2"}
VoltageParams == {"VFSDS", "BVDSS1", "BVDSS2", "DELTABV"}

adjust_RDSON1(value, lim) ==
    LET is_mohm_scale == Gt(lim.value, Dec(10, 0))
                         \/ (lim.unit # "" /\ Contains(lim.unit, "mohm"))
    IN  IF Lt(value, Dec(1, 0))
        THEN IF is_mohm_scale THEN Shift(value, 3) ELSE value
        ELSE IF Lt(value, Dec(1000, 0))
        THEN IF ~is_mohm_scale THEN Shift(value, -3) ELSE value
        ELSE IF is_mohm_scale THEN Shift(value, -3) ELSE Shift(value, -6)

adjust_leakage(value, lim) ==
    LET is_na_scale == lim.unit # "" /\ Contains(lim.unit, "na")
    IN  IF Lt(value, Dec(1, -6))
        THEN IF is_na_scale \/ lim.unit = "" THEN Shift(value, 9) ELSE value
        ELSE IF Lt(value, Dec(1, -3))
        THEN IF is_na_scale \/ lim.unit = "" THEN Shift(value, 3) ELSE value
        ELSE value

adjust_IDSS3(value, lim) ==
    LET is_ua_scale == lim.unit # "" /\ Contains(lim.unit, "ua")
    IN  IF Lt(value, Dec(1, -6))
        THEN IF is_ua_scale \/ lim.unit = "" THEN Shift(value, 6) ELSE value
        ELSE value

adjust_voltage(value, lim) ==
    LET is_mv_scale == lim.unit # "" /\ Contains(lim.unit, "mv")
        \* 500 < limit/value < 2000 and 0.0005 < limit/value < 0.002, value > 0
        ratio_small == Lt(Times(value, 500), lim.value)
                       /\ Lt(lim.value, Times(value, 2000))
        ratio_large == Lt(Shift(Times(value, 5), -4), lim.value)
                       /\ Lt(lim.value, Shift(Times(value, 2), -3))
    IN  IF is_mv_scale /\ Lt(value, Dec(10, 0)) /\ Gt(lim.value, Dec(100, 0))
        THEN Shift(value, 3)
        ELSE IF ~is_mv_scale /\ Gt(value, Dec(100, 0)) /\ Lt(lim.value, Dec(10, 0))
        THEN Shift(value, -3)
        ELSE IF Gt(lim.value, Zero) /\ Gt(value, Zero)
        THEN IF ratio_small /\ ~is_mv_scale THEN Shift(value, 3)
             ELSE IF ratio_large /\ is_mv_scale THEN Shift(value, -3)
             ELSE value
        ELSE value

adjust_unit(value, param, limit_u) ==
    IF value = Zero THEN value
    ELSE LET lim == parse_limit_value(limit_u)
         IN  CASE param = "RDSON1" -> adjust_RDSON1(value, lim)
               [] param \in LeakageParams -> adjust_leakage(value, lim)
               [] param = "IDSS3" -> adjust_IDSS3(value, lim)
               [] param \in VoltageParams -> adjust_voltage(value, lim)
               [] OTHER -> value

-----------------------------------------------------------------------------
(* The normalizing pass of CPLogCleaner.clean over one cell of clean_data *)

MaxExp == 6
ExpLow == 13
MaxPasses == 3

SupportedParams == {"RDSON1"} \cup LeakageParams \cup {"IDSS3"} \cup VoltageParams

NormParams == SupportedParams \cup {"VTH"}

NormValues == {Dec(m, e) : m \in {0, 1, 5, 25}, e \in (-ExpLow)..MaxExp}

NormLimits ==
    {LimitTok(Dec(m, e), "") : m \in {1, 5, 25, 365, 9}, e \in {-9, -3, 0, 2}}
    \cup {LimitTok(Dec(-10, 0), ""),
          LimitTok(Dec(365, 0), "mOHM"), LimitTok(Dec(365, -3), "OHM"),
          LimitTok(Dec(900, 0), "V"), LimitTok(Dec(1000, 0), "mV"),
          LimitTok(Dec(250, 0), "nA"), LimitTok(Dec(250, 0), "uA")}

NormIdle ==
    /\ n_param = "VTH"
    /\ n_limit = LimitTok(Zero, "")
    /\ n_raw = Zero
    /\ n_value = Zero
    /\ n_passes = 0

NormStart ==
    /\ n_param \in NormParams
    /\ n_limit \in NormLimits
    /\ n_raw \in NormValues
    /\ n_value = n_raw
    /\ n_passes = 0

\* one run of the conversion loop: every non-missing value of the column is
\* replaced by adjust_unit(value, param, limit_upper) when that differs
NormalizePass ==
    /\ n_passes < MaxPasses
    /\ n_value' = IF n_param \in SupportedParams
                  THEN adjust_unit(n_value, n_param, n_limit)
                  ELSE n_value
    /\ n_passes' = n_passes + 1
    /\ UNCHANGED <<n_param, n_limit, n_raw>>
    /\ UNCHANGED <<fvars, avars, cvars, mvars, svars, lvars, pvars, jvars, wvars, xvars, hvars>>

-----------------------------------------------------------------------------
(* log_parser.py: CPLogParser._parse_limit_value *)

\* A field of a limit row: "empty" (the empty string), "blank" (white space
\* only), "missing" (None: the row has no field), "text" (no numeric literal
\* in it and not a word float() accepts), "word" (nan: no numeric literal, but
\* float() accepts it) or "num": a numeric literal, written with an exponent
\* (sci) or not, followed by the unit suffix as written ("" when none).
EmptyTok == [kind |-> "empty", num |-> NONE, sci |-> FALSE, unit |-> ""]
BlankTok == [kind |-> "blank", num |-> NONE, sci |-> FALSE, unit |-> ""]
MissingTok == [kind |-> "missing", num |-> NONE, sci |-> FALSE, unit |-> ""]
TextTok == [kind |-> "text", num |-> NONE, sci |-> FALSE, unit |-> ""]
NumTok(num, sci, unit) == [kind |-> "num", num |-> num, sci |-> sci, unit |-> unit]

\* float("nan"): not None, and no decimal (a normalized decimal with m = 0
\* has e = 0)
NaN == [m |-> 0, e |-> 2]
WordTok == [kind |-> "word", num |-> NaN, sci |-> FALSE, unit |-> ""]

\* a literal written with an exponent, "3.35E-002": float() gives coef * 10^exp
SciTok(coef, exp, unit) == NumTok(Shift(coef, exp), TRUE, unit)

NoLimit == [value |-> NONE, unit |-> NoUnit]

CurrentParams == LeakageParams \cup {"IDSS3"}

\* parse_limit_RDSON1 converting a plain-ohm literal to milli-ohms
parse_limit_RDSON1_converting(tok) ==
    IF tok.kind \in {"num", "word"}
    THEN [value |-> IF Lower(tok.unit) = "ohm" THEN Shift(tok.num, 3) ELSE tok.num,
          unit |-> "mohm"]
    ELSE NoLimit

\* the RDSON1 branch: every ohm spelling, and no unit at all, gives "mohm"
\* with the number as written; so does a word float() accepts
parse_limit_RDSON1(tok) ==
    IF tok.kind \in {"num", "word"} THEN [value |-> tok.num, unit |-> "mohm"]
    ELSE NoLimit

\* the current branch: na > ua > ma > a by substring of the lower-cased unit
parse_limit_current(tok, param_name) ==
    IF tok.kind \notin {"num", "word"} THEN NoLimit
    ELSE LET unit_lower == Lower(tok.unit)
         IN  [value |-> tok.num,
              unit |-> CASE unit_lower = "na" -> "na"
                         [] unit_lower = "ua" -> "ua"
                         [] unit_lower = "ma" -> "ma"
                         [] unit_lower = "a" -> "a"
                         [] OTHER -> IF param_name = "IDSS3" THEN "ua" ELSE "na"]

\* the generic branch: a bare exponent literal is float(limit_str) with no
\* unit; otherwise the regex gives the number and the unit suffix as written
parse_limit_generic(tok) ==
    IF tok.kind \notin {"num", "word"} THEN NoLimit
    ELSE IF tok.kind = "word" THEN [value |-> tok.num, unit |-> NoUnit]
    ELSE IF tok.sci /\ tok.unit = "" THEN [value |-> tok.num, unit |-> NoUnit]
    ELSE [value |-> tok.num, unit |-> tok.unit]

_parse_limit_value(tok, param_name) ==
    IF tok.kind \in {"empty", "blank", "missing"} THEN NoLimit
    ELSE IF param_name = "RDSON1" THEN parse_limit_RDSON1(tok)
    ELSE IF param_name \in CurrentParams THEN parse_limit_current(tok, param_name)
    ELSE parse_limit_generic(tok)

\* the literals and unit suffixes of the modelled limit fields
LimitLiterals == {Dec(9, 2), Dec(365, 0), Dec(365, -3), Dec(25, 1), Dec(4, 0)}
LimitSuffixes == {"", "V", "mV", "OHM", "mOHM", "A", "uA", "nA"}

LimitToks ==
    {EmptyTok, BlankTok, MissingTok, TextTok, WordTok}
    \cup {NumTok(x, FALSE, u) : x \in LimitLiterals, u \in LimitSuffixes}
    \cup {SciTok(Dec(335, -2), -2, u) : u \in LimitSuffixes}
    \cup {SciTok(Dec(12, -1), -8, u) : u \in LimitSuffixes}

\* the parameter names the parser is called with
LimitParams ==
    {"BVDSS1", "BVDSS2", "DELTABV", "IDSS1", "VTH", "RDSON1", "VFSDS", "IGSS2",
     "IGSSR2", "IDSS2", "IDSS3"}

LimitIdle ==
    /\ p_tok = EmptyTok
    /\ p_param = "VTH"
    /\ p_result = NoLimit
    /\ p_pc = "idle"

LimitStart ==
    /\ p_tok \in LimitToks
    /\ p_param \in LimitParams
    /\ p_result = NoLimit
    /\ p_pc = "ready"

\* one call of _parse_limit_value(limit_str, param_name)
ParseLimit ==
    /\ p_pc = "ready"
    /\ p_result' = _parse_limit_value(p_tok, p_param)
    /\ p_pc' = "returned"
    /\ UNCHANGED <<p_tok, p_param>>
    /\ UNCHANGED <<nvars, fvars, avars, cvars, mvars, svars, lvars, jvars, wvars, xvars, hvars>>

-----------------------------------------------------------------------------
(* log_parser.py: CPLogParser._parse_file, limits and the data loop *)

target_params == <<"BVDSS1", "BVDSS2", "DELTABV", "IDSS1", "VTH", "RDSON1",
                   "VFSDS", "IGSS2", "IGSSR2", "IDSS2">>

Range(seq) == {seq[i] : i \in 1..Len(seq)}

\* self.target_params + ["IDSS3"]
ExtractedParams == Range(target_params) \cup {"IDSS3"}

Min(a, b) == IF a < b THEN a ELSE b

\* param_names.index(param), 1-based
IndexOf(seq, x) == CHOOSE i \in 1..Len(seq) : seq[i] = x /\ \A j \in 1..(i - 1) : seq[j] # x

\* the field of a limit row used for the column at position i of param_names
LimitField(row, i) == row[Min(i, Len(row))]

HeaderTargets(names) == Range(names) \cap ExtractedParams

\* FileLimits filled from the upper limit row alone
FileLimitsFromUpperRow(names, limit_u, limit_l) ==
    IF limit_u = <<>> THEN [p \in {} |-> NoLimit]
    ELSE [p \in HeaderTargets(names) |->
            LET upper == _parse_limit_value(LimitField(limit_u, IndexOf(names, p)), p)
            IN  [upper |-> upper.value, lower |-> NONE, unit |-> upper.unit]]

\* the limits dictionary: filled only when both limit rows were found
FileLimits(names, limit_u, limit_l) ==
    IF limit_u = <<>> \/ limit_l = <<>> THEN [p \in {} |-> NoLimit]
    ELSE [p \in HeaderTargets(names) |->
            LET upper == _parse_limit_value(LimitField(limit_u, IndexOf(names, p)), p)
                lower == _parse_limit_value(LimitField(limit_l, IndexOf(names, p)), p)
            IN  [upper |-> upper.value, lower |-> lower.value, unit |-> upper.unit]]

\* param_units: the lower-cased upper unit of every parameter that has one
TruthyUnit(u) == u # NoUnit /\ u # ""

FileUnits(lims) ==
    [p \in {q \in DOMAIN lims : TruthyUnit(lims[q].unit)} |-> Lower(lims[p].unit)]

\* A cell of a data line: "empty", "bad" (text float() rejects), "sentinel"
\* (the literal 999.9) or "num" (a float literal, num its value).
Cell(kind, num) == [kind |-> kind, num |-> num]
SentinelValue == Dec(9999, -1)

\* StoresValue without the test against the literal 999.9
StoresValueNoSentinelTest(cell) == cell.kind \in {"num", "sentinel"}

\* the cell is non-empty, is not the literal 999.9 and float() accepts it
StoresValue(cell) == cell.kind = "num"

\* param_units.get(param, "")
UnitOf(units, param) == IF param \in DOMAIN units THEN units[param] ELSE ""

\* d[key] = v on a dictionary
Put(d, key, v) == [q \in DOMAIN d \cup {key} |-> IF q = key THEN v ELSE d[q]]

\* the unit correction of one stored value: [value, units] after it
ConvertCell(param, value, units) ==
    CASE param = "RDSON1" /\ UnitOf(units, param) \in {"ohm", ""} ->
            [value |-> Shift(value, 3), units |-> Put(units, param, "mohm")]
      [] param \in LeakageParams /\ UnitOf(units, param) = "a" ->
            [value |-> Shift(value, 9), units |-> Put(units, param, "na")]
      [] param = "IDSS3" /\ UnitOf(units, param) = "a" ->
            [value |-> Shift(value, 6), units |-> units]
      [] OTHER -> [value |-> value, units |-> units]

\* Retained without the test on valid_params
RetainedAlways(valid_params) == valid_params >= 0

\* the record is kept only with at least one valid target parameter
Retained(valid_params) == valid_params > 0

\* The loop over target_params + ["IDSS3"] for one data line, from position k
\* of that list: st = [vals, units, valid] is the record's values so far, the
\* units so far and valid_params.
LoopOrder == target_params \o <<"IDSS3">>

RECURSIVE ExtractFrom(_, _, _, _)
ExtractFrom(k, names, cells, st) ==
    IF k > Len(LoopOrder) THEN st
    ELSE LET param == LoopOrder[k]
         IN  IF param \notin Range(names) THEN ExtractFrom(k + 1, names, cells, st)
             ELSE LET cell == cells[IndexOf(names, param)]
                  IN  IF ~StoresValue(cell) THEN ExtractFrom(k + 1, names, cells, st)
                      ELSE LET raw == IF cell.kind = "sentinel" THEN SentinelValue
                                      ELSE cell.num
                               c == ConvertCell(param, raw, st.units)
                           IN  ExtractFrom(k + 1, names, cells,
                                   [vals |-> Put(st.vals, param, c.value),
                                    units |-> c.units,
                                    valid |-> st.valid + 1])

MaxLines == 2

EmptyDict == [p \in {} |-> NONE]

\* the columns of the modelled files: No.U and two of these parameters
HeaderChoice == <<"RDSON1", "IDSS1", "IDSS3", "VTH">>

Headers ==
    {<<"No.U", HeaderChoice[ij[1]], HeaderChoice[ij[2]]>> :
        ij \in {x \in (1..Len(HeaderChoice)) \X (1..Len(HeaderChoice)) : x[1] < x[2]}}

\* upper limit tokens a file may state for a parameter
UpperToks(p) ==
    CASE p = "RDSON1" -> {NumTok(Dec(365, 0), FALSE, "mOHM"),
                          NumTok(Dec(365, -3), FALSE, "OHM"),
                          NumTok(Dec(335, -4), TRUE, ""),
                          TextTok}
      [] p = "IDSS1" -> {NumTok(Dec(250, 0), FALSE, "nA"),
                         NumTok(Dec(25, -8), TRUE, "A"),
                         NumTok(Dec(250, 0), FALSE, "")}
      [] p = "IDSS3" -> {NumTok(Dec(250, 0), FALSE, "uA"),
                         NumTok(Dec(25, -5), TRUE, "A")}
      [] OTHER -> {NumTok(Dec(4, 0), FALSE, "V"), EmptyTok}

LowerTok(p) == IF p = "VTH" THEN NumTok(Dec(3, 0), FALSE, "V")
               ELSE NumTok(Zero, FALSE, "")

\* the raw number a data cell of the parameter holds in the modelled files
RawValue(p) ==
    CASE p = "RDSON1" -> Dec(335782, -7)
      [] p = "IDSS1" -> Dec(12, -10)
      [] p = "IDSS3" -> Dec(25, -7)
      [] OTHER -> Dec(35, -1)

CellsOf(p) == {Cell("empty", NONE), Cell("bad", NONE), Cell("sentinel", NONE),
               Cell("num", RawValue(p))}

\* A line read in the data loop: a data line (first field all digits, at
\* least 3 fields), a blank line, or any other line.
DataLines(names) ==
    {[kind |-> "data", cells |-> <<Cell("num", Dec(1, 0)), c2, c3>>] :
        c2 \in CellsOf(names[2]), c3 \in CellsOf(names[3])}

SkippedLines == {[kind |-> k, cells |-> <<>>] : k \in {"blank", "label"}}

FileIdle ==
    /\ f_param_names = <<>>
    /\ f_limit_u = <<>>
    /\ f_limit_l = <<>>
    /\ limits = EmptyDict
    /\ param_units = EmptyDict
    /\ f_lines = <<>>
    /\ data_records = <<>>
    /\ f_pc = "idle"

\* _parse_file up to the data loop: header, limit rows and data start found
FileStart ==
    /\ f_param_names \in Headers
    /\ f_limit_l \in {<<>>, <<TextTok, LowerTok(f_param_names[2]),
                            LowerTok(f_param_names[3])>>}
    /\ f_limit_u \in {<<>>} \cup {<<TextTok, t2, t3>> :
                          t2 \in UpperToks(f_param_names[2]),
                          t3 \in UpperToks(f_param_names[3])}
    \* without a lower limit row the upper row is never parsed: only rows of
    \* plain literals with a unit are enumerated then
    /\ f_limit_l = <<>> /\ f_limit_u # <<>> =>
          \A k \in 2..3 : /\ f_limit_u[k].kind = "num"
                          /\ ~f_limit_u[k].sci
                          /\ f_limit_u[k].unit # ""
    /\ limits = FileLimits(f_param_names, f_limit_u, f_limit_l)
    /\ param_units = FileUnits(limits)
    /\ f_lines = <<>>
    /\ data_records = <<>>
    /\ f_pc = "scan"

\* one iteration of the data loop on a line that is not a data line
SkipLine ==
    /\ f_pc = "scan"
    /\ f_lines # <<>>
    /\ Len(f_lines) < MaxLines
    /\ \E line \in SkippedLines : f_lines' = Append(f_lines, line)
    /\ UNCHANGED <<f_param_names, f_limit_u, f_limit_l, limits, param_units,
                   data_records, f_pc>>
    /\ UNCHANGED <<nvars, avars, cvars, mvars, svars, lvars, pvars, jvars, wvars, xvars, hvars>>

\* one iteration of the data loop on a data line (the line at data_start_idx
\* is one): build the record, convert units, append it if it is retained
ParseLine ==
    /\ f_pc = "scan"
    /\ Len(f_lines) < MaxLines
    /\ \E line \in DataLines(f_param_names) :
          LET st == ExtractFrom(1, f_param_names, line.cells,
                        [vals |-> EmptyDict, units |-> param_units, valid |-> 0])
              record == [line |-> Len(f_lines) + 1, vals |-> st.vals]
          IN  /\ f_lines' = Append(f_lines, line)
              /\ param_units' = st.units
              /\ data_records' = IF Retained(st.valid)
                                 THEN Append(data_records, record)
                                 ELSE data_records
    /\ UNCHANGED <<f_param_names, f_limit_u, f_limit_l, limits, f_pc>>
    /\ UNCHANGED <<nvars, avars, cvars, mvars, svars, lvars, pvars, jvars, wvars, xvars, hvars>>

\* end of file: return data_records, limits
FinishFile ==
    /\ f_pc = "scan"
    /\ f_lines # <<>>
    /\ f_pc' = "done"
    /\ UNCHANGED <<f_param_names, f_limit_u, f_limit_l, limits, param_units,
                   f_lines, data_records>>
    /\ UNCHANGED <<nvars, avars, cvars, mvars, svars, lvars, pvars, jvars, wvars, xvars, hvars>>

-----------------------------------------------------------------------------
(* log_parser.py: CPLogParser.parse_all_files *)

MaxFiles == 3

\* a target parameter the default table does not know
CustomParam == "CUSTOM"

\* the default entry of a target parameter no file gave limits for
DefaultEntry(param) ==
    CASE param \in {"BVDSS1", "BVDSS2"} ->
            [upper |-> Dec(900, 0), lower |-> Dec(660, 0), unit |-> "v"]
      [] param = "DELTABV" ->
            [upper |-> Dec(50, 0), lower |-> Dec(-10, 0), unit |-> "v"]
      [] param \in {"IDSS1", "IDSS2"} ->
            [upper |-> Dec(250, -9), lower |-> Zero, unit |-> "a"]
      [] param = "IDSS3" ->
            [upper |-> Dec(250, -6), lower |-> Zero, unit |-> "ua"]
      [] param = "VTH" ->
            [upper |-> Dec(4, 0), lower |-> Dec(3, 0), unit |-> "v"]
      [] param = "RDSON1" ->
            [upper |-> Dec(365, -3), lower |-> Dec(100, -3), unit |-> "ohm"]
      [] param = "VFSDS" ->
            [upper |-> Dec(1, 0), lower |-> Zero, unit |-> "v"]
      [] param \in {"IGSS2", "IGSSR2"} ->
            [upper |-> Dec(300, -9), lower |-> Zero, unit |-> "a"]
      [] OTHER -> [upper |-> NONE, lower |-> NONE, unit |-> NoUnit]

\* the upper limit set when an entry exists and its upper is None
MissingUpper(param) ==
    CASE param \in {"BVDSS1", "BVDSS2"} -> Dec(900, 0)
      [] param = "DELTABV" -> Dec(50, 0)
      [] param \in {"IDSS1", "IDSS2"} -> Dec(250, -9)
      [] param = "IDSS3" -> Dec(250, -6)
      [] param = "VTH" -> Dec(4, 0)
      [] param = "RDSON1" -> Dec(365, -3)
      [] param = "VFSDS" -> Dec(1, 0)
      [] param \in {"IGSS2", "IGSSR2"} -> Dec(300, -9)
      [] OTHER -> NONE

\* the lower limit set when an entry exists and its lower is None
MissingLower(param) ==
    CASE param \in {"BVDSS1", "BVDSS2"} -> Dec(660, 0)
      [] param = "DELTABV" -> Dec(-10, 0)
      [] param \in {"IDSS1", "IDSS2", "IDSS3"} -> Zero
      [] param = "VTH" -> Dec(3, 0)
      [] param = "RDSON1" -> Dec(100, -3)
      [] param = "VFSDS" -> Zero
      [] param \in {"IGSS2", "IGSSR2"} -> Zero
      [] OTHER -> NONE

\* extended_params: the target parameters of the batch, IDSS3 included
ExtendedParams(param) ==
    ExtractedParams \cup (IF param = CustomParam THEN {CustomParam} ELSE {})

\* MergeNum letting a later file overwrite
MergeNumLastWins(old, new) == IF new # NONE THEN new ELSE old

\* a later file only fills an upper or lower that is still None
MergeNum(old, new) == IF new # NONE /\ old = NONE THEN new ELSE old

\* a later file only fills a unit that is still None
MergeUnit(old, new) == IF new # NoUnit /\ old = NoUnit THEN new ELSE old

\* the merge of one file's limits into all_limits
MergeLimits(all, lims) ==
    [p \in DOMAIN all \cup DOMAIN lims |->
        IF p \notin DOMAIN all THEN lims[p]
        ELSE IF p \notin DOMAIN lims THEN all[p]
        ELSE [upper |-> MergeNum(all[p].upper, lims[p].upper),
              lower |-> MergeNum(all[p].lower, lims[p].lower),
              unit |-> MergeUnit(all[p].unit, lims[p].unit)]]

\* FillMissing leaving an incomplete entry as it is
FillMissingNever(current, default) == current

\* a field of an existing entry that is None gets the default
FillMissing(current, default) == IF current = NONE THEN default ELSE current

\* the default pass over extended_params
WithDefaults(all, params) ==
    [p \in DOMAIN all \cup params |->
        IF p \notin DOMAIN all THEN DefaultEntry(p)
        ELSE IF p \notin params THEN all[p]
        ELSE [upper |-> FillMissing(all[p].upper, MissingUpper(p)),
              lower |-> FillMissing(all[p].lower, MissingLower(p)),
              unit |-> all[p].unit]]

\* what the i-th file of the batch states for the parameter when it does
FileUpper(i) == Dec(10 * i, 0)
FileLower(i) == Dec(10 * i - 5, 0)
FileUnit(i) == IF i % 2 = 1 THEN "V" ELSE "mV"

NoLimits == [p \in {} |-> NoLimit]

\* the limits the i-th file can return: none (no limit rows, or the file
\* unusable), or one entry whose fields are each stated or None; the unit is
\* the upper limit's (None, the empty string of a bare number, or a unit), so
\* there is none without an upper
FileLimitChoices(i, param) ==
    {NoLimits} \cup
    {[p \in {param} |-> [upper |-> ulu[1], lower |-> ulu[2], unit |-> ulu[3]]] :
        ulu \in {x \in {NONE, FileUpper(i)} \X {NONE, FileLower(i)}
                             \X {NoUnit, "", FileUnit(i)} :
                    x[1] = NONE => x[3] = NoUnit}}

\* the k-th record of the i-th file; every file has the same lot and wafer
FileRecord(i, k) == [Lot |-> "LOT", Wafer |-> "01", NoU |-> k, value |-> Dec(i, 0)]

FileRecordChoices(i) ==
    {<<>>, <<FileRecord(i, 1)>>, <<FileRecord(i, 1), FileRecord(i, 2)>>}

SameUnit(r, q) == r.Lot = q.Lot /\ r.Wafer = q.Wafer /\ r.NoU = q.NoU

\* ExtendRecords dropping a record whose (Lot, Wafer, No.U) is already known
ExtendRecordsMerged(all, records) ==
    all \o SelectSeq(records, LAMBDA r : \A k \in 1..Len(all) : ~SameUnit(all[k], r))

\* all_records.extend(records)
ExtendRecords(all, records) == all \o records

AllIdle ==
    /\ a_param = "VTH"
    /\ file_ok = <<>>
    /\ file_limits = <<>>
    /\ all_limits = NoLimits
    /\ file_records = <<>>
    /\ all_records = <<>>
    /\ a_dataset = <<>>
    /\ a_pc = "idle"

AllStart ==
    /\ a_param \in ExtractedParams \cup {CustomParam}
    /\ file_ok = <<>>
    /\ file_limits = <<>>
    /\ all_limits = NoLimits
    /\ file_records = <<>>
    /\ all_records = <<>>
    /\ a_dataset = <<>>
    /\ a_pc = "limits"

\* no file was found in the directory: return None, None
NoFiles ==
    /\ a_pc = "limits"
    /\ file_ok = <<>>
    /\ a_pc' = "failed"
    /\ UNCHANGED <<a_param, file_ok, file_limits, all_limits, file_records,
                   all_records, a_dataset>>
    /\ UNCHANGED <<nvars, fvars, cvars, mvars, svars, lvars, pvars, jvars, wvars, xvars, hvars>>

\* first loop, one file: _parse_file, then merge its limits
LimitsOfFile ==
    /\ a_pc = "limits"
    /\ Len(file_ok) < MaxFiles
    /\ \E ok \in BOOLEAN :
         \E lims \in IF ok THEN FileLimitChoices(Len(file_ok) + 1, a_param)
                           ELSE {NoLimits} :
            /\ file_ok' = Append(file_ok, ok)
            /\ file_limits' = Append(file_limits, lims)
            /\ all_limits' = MergeLimits(all_limits, lims)
    /\ UNCHANGED <<a_param, file_records, all_records, a_dataset, a_pc>>
    /\ UNCHANGED <<nvars, fvars, cvars, mvars, svars, lvars, pvars, jvars, wvars, xvars, hvars>>

\* the first loop has seen every file
LimitsDone ==
    /\ a_pc = "limits"
    /\ file_ok # <<>>
    /\ a_pc' = "defaults"
    /\ UNCHANGED <<a_param, file_ok, file_limits, all_limits, file_records,
                   all_records, a_dataset>>
    /\ UNCHANGED <<nvars, fvars, cvars, mvars, svars, lvars, pvars, jvars, wvars, xvars, hvars>>

\* the default pass; the limits returned per file are not used after it
FillDefaults ==
    /\ a_pc = "defaults"
    /\ all_limits' = WithDefaults(all_limits, ExtendedParams(a_param))
    /\ file_limits' = <<>>
    /\ a_pc' = "records"
    /\ UNCHANGED <<a_param, file_ok, file_records, all_records, a_dataset>>
    /\ UNCHANGED <<nvars, fvars, cvars, mvars, svars, lvars, pvars, jvars, wvars, xvars, hvars>>

\* second loop, one file: _parse_file again, keep its records if any
RecordsOfFile ==
    /\ a_pc = "records"
    /\ Len(file_records) < Len(file_ok)
    /\ \E records \in IF file_ok[Len(file_records) + 1]
                      THEN FileRecordChoices(Len(file_records) + 1)
                      ELSE {<<>>} :
          /\ file_records' = Append(file_records, records)
          /\ all_records' = IF records # <<>>
                            THEN ExtendRecords(all_records, records)
                            ELSE all_records
    /\ UNCHANGED <<a_param, file_ok, file_limits, all_limits, a_dataset, a_pc>>
    /\ UNCHANGED <<nvars, fvars, cvars, mvars, svars, lvars, pvars, jvars, wvars, xvars, hvars>>

\* after the second loop: None, None without records, else the DataFrame of
\* all_records and the limits
ReturnAll ==
    /\ a_pc = "records"
    /\ Len(file_records) = Len(file_ok)
    /\ IF all_records = <<>>
       THEN a_pc' = "failed" /\ a_dataset' = <<>>
       ELSE a_pc' = "returned" /\ a_dataset' = all_records
    /\ UNCHANGED <<a_param, file_ok, file_limits, all_limits, file_records,
                   all_records>>
    /\ UNCHANGED <<nvars, fvars, cvars, mvars, svars, lvars, pvars, jvars, wvars, xvars, hvars>>

-----------------------------------------------------------------------------
(* data_cleaner.py: the cleaning strategies and CPLogCleaner.clean *)

MaxRows == 2
BulkRows == 10

\* df_clean = data.copy(): one row per row of data, no flag column set
Frame(data) == [i \in 1..Len(data) |-> [value |-> data[i], flags |-> {}]]

RECURSIVE RowsOutside(_, _, _)
RowsOutside(table, mask, i) ==
    IF i > Len(table) THEN <<>>
    ELSE (IF mask[i] THEN <<>> ELSE <<table[i]>>) \o RowsOutside(table, mask, i + 1)

\* Mark removing the rows of the mask instead of flagging them
MarkByRemoving(table, mask, flag) == RowsOutside(table, mask, 1)

\* df_clean.loc[mask, flag] = True
Mark(table, mask, flag) ==
    [i \in 1..Len(table) |->
        IF mask[i] THEN [table[i] EXCEPT !.flags = @ \cup {flag}] ELSE table[i]]

\* the column as integers: a value in units of 0.5 (None stays out of sums)
Halves(x) ==
    IF x.e >= 0 THEN 2 * x.m * Pow10(x.e) ELSE (2 * x.m) \div Pow10(-x.e)

Present(col) == {i \in 1..Len(col) : col[i] # NONE}

RECURSIVE SumTo(_, _)
SumTo(f, k) == IF k = 0 THEN 0 ELSE f[k] + SumTo(f, k - 1)

\* np.abs((x - x.mean()) / x.std()) > 3.0 on the non-missing entries of the
\* integer column x (sample standard deviation), in exact arithmetic:
\* (n*x_i - S)^2 * (n-1) > 9 * sum_j (n*x_j - S)^2
ZOutliers(x, present) ==
    LET n == Cardinality(present)
        len == Cardinality(DOMAIN x)
        S == SumTo([i \in DOMAIN x |-> IF i \in present THEN x[i] ELSE 0], len)
        sq == [i \in DOMAIN x |->
                 IF i \in present THEN (n * x[i] - S) * (n * x[i] - S) ELSE 0]
        total == SumTo(sq, len)
    IN  [i \in DOMAIN x |-> i \in present /\ n >= 2 /\ sq[i] * (n - 1) > 9 * total]

\* the k-th smallest of the non-missing entries
KthSmallest(x, present, k) ==
    CHOOSE v \in {x[i] : i \in present} :
        /\ Cardinality({i \in present : x[i] < v}) < k
        /\ k <= Cardinality({i \in present : x[i] <= v})

\* 4 * Series.quantile(q4 / 4), linear interpolation between order statistics
Quantile4(x, present, q4) ==
    LET n == Cardinality(present)
        pos == (n - 1) * q4
        k == pos \div 4
        r == pos % 4
    IN  IF r = 0 THEN 4 * KthSmallest(x, present, k + 1)
        ELSE (4 - r) * KthSmallest(x, present, k + 1)
             + r * KthSmallest(x, present, k + 2)

\* limit * 1.5 and limit * 0.5
OneAndHalf(x) == Shift(Times(x, 15), -1)
Half(x) == Shift(Times(x, 5), -1)

\* StandardCPDataCleanerStrategy.clean on the parameter column
StandardClean(data, lims) ==
    LET mask_high == [i \in 1..Len(data) |->
                        data[i] # NONE /\ Gt(data[i], OneAndHalf(lims.upper))]
        spec_high == [i \in 1..Len(data) |->
                        data[i] # NONE /\ Gt(data[i], lims.upper) /\ ~mask_high[i]]
        mask_low == [i \in 1..Len(data) |->
                        data[i] # NONE /\ Lt(data[i], Half(lims.lower))]
        spec_low == [i \in 1..Len(data) |->
                        data[i] # NONE /\ Lt(data[i], lims.lower) /\ ~mask_low[i]]
        t0 == Frame(data)
        t1 == IF lims.upper # NONE
              THEN Mark(Mark(t0, mask_high, "outlier_high"), spec_high, "spec_high")
              ELSE t0
    IN  IF lims.lower # NONE
        THEN Mark(Mark(t1, mask_low, "outlier_low"), spec_low, "spec_low")
        ELSE t1

\* RemoveOutliersStrategy.clean on the parameter column (std_threshold 3.0)
RemoveOutliersClean(data) ==
    LET x == [i \in 1..Len(data) |-> Halves(data[i])]
    IN  Mark(Frame(data), ZOutliers(x, Present(data)), "z_outlier")

\* np.log1p(abs(v)) in units of 1/500, rounded, for the values of the model
\* (v in units of 0.5)
Log1pAbs(h) ==
    CASE Abs(h) = 0 -> 0
      [] Abs(h) = 2 -> 347
      [] Abs(h) = 4 -> 549
      [] Abs(h) = 6 -> 693
      [] Abs(h) = 7 -> 752
      [] Abs(h) = 9 -> 852
      [] Abs(h) = 14 -> 1040

SpecLimitParams == {"BVDSS1", "BVDSS2", "VTH", "VFSDS"}
LogTransformParams == {"IDSS1", "IGSS2", "IGSSR2", "IDSS2"}
StatisticalParams == {"DELTABV", "RDSON1"}

\* the spec_limit branch: thresholds from the quartiles and the limits, all
\* in units of 1/8
SmartSpecLimit(data, lims) ==
    LET present == Present(data)
        x == [i \in 1..Len(data) |-> Halves(data[i])]
        q1 == Quantile4(x, present, 1)
        q3 == Quantile4(x, present, 3)
        high == Min(q3 + 3 * (q3 - q1), 6 * Halves(lims.upper))
        low == LET a == q1 - 3 * (q3 - q1)
                   b == 2 * Halves(lims.lower)
               IN  IF a > b THEN a ELSE b
        mask_high == [i \in 1..Len(data) |-> i \in present /\ 4 * x[i] > high]
        mask_low == [i \in 1..Len(data) |-> i \in present /\ 4 * x[i] < low]
        t0 == Frame(data)
        t1 == IF lims.upper # NONE /\ present # {}
              THEN Mark(t0, mask_high, "smart_outlier_high") ELSE t0
    IN  IF lims.lower # NONE /\ present # {}
        THEN Mark(t1, mask_low, "smart_outlier_low") ELSE t1

\* SmartParameterCleanerStrategy.clean on the parameter column
SmartClean(data, param, lims) ==
    LET x == [i \in 1..Len(data) |-> Halves(data[i])]
        logs == [i \in 1..Len(data) |-> Log1pAbs(x[i])]
    IN  CASE param \in SpecLimitParams -> SmartSpecLimit(data, lims)
          [] param \in LogTransformParams ->
                Mark(Frame(data), ZOutliers(logs, Present(data)), "smart_log_outlier")
          [] param \in StatisticalParams ->
                Mark(Frame(data), ZOutliers(x, Present(data)), "smart_stat_outlier")
          [] OTHER -> Frame(data)

\* the conversion loop of CPLogCleaner.clean over the column of clean_data
Normalized(table, param, lims) ==
    [i \in 1..Len(table) |->
        IF param \in SupportedParams /\ lims.upper # NONE /\ table[i].value # NONE
        THEN [table[i] EXCEPT
                !.value = adjust_unit(@, param, LimitTok(lims.upper, ""))]
        ELSE table[i]]

CleanParams == {"VTH", "IDSS1", "RDSON1", "IDSS3"}

CleanValues == {NONE, Dec(-3, 0), Dec(1, 0), Dec(2, 0), Dec(35, -1), Dec(45, -1),
                Dec(7, 0)}

CleanLimits ==
    {[upper |-> NONE, lower |-> NONE], [upper |-> Dec(4, 0), lower |-> NONE],
     [upper |-> NONE, lower |-> Dec(3, 0)], [upper |-> Dec(4, 0), lower |-> Dec(3, 0)],
     [upper |-> Dec(-2, 0), lower |-> Dec(-4, 0)]}

RECURSIVE Tables(_)
Tables(n) ==
    IF n = 0 THEN {<<>>}
    ELSE Tables(n - 1) \cup
         {Append(t, v) : t \in {u \in Tables(n - 1) : Len(u) = n - 1}, v \in CleanValues}

\* the raw tables: up to MaxRows arbitrary rows, alone or after BulkRows rows
\* that all hold 3.5
RawTables ==
    Tables(MaxRows) \cup
    {[i \in 1..BulkRows |-> Dec(35, -1)] \o t : t \in Tables(MaxRows)}

CleanIdle ==
    /\ c_param = "VTH"
    /\ c_loaded = FALSE
    /\ raw_data = <<>>
    /\ c_limits = [upper |-> NONE, lower |-> NONE]
    /\ clean_data = <<>>
    /\ c_returned = <<>>
    /\ c_result = "pending"
    /\ c_strategy = ""

CleanStart ==
    /\ c_param \in CleanParams
    /\ c_loaded \in BOOLEAN
    /\ raw_data \in IF c_loaded THEN RawTables ELSE {<<>>}
    /\ c_limits \in IF c_loaded THEN CleanLimits ELSE {[upper |-> NONE, lower |-> NONE]}
    /\ clean_data = <<>>
    /\ c_returned = <<>>
    /\ c_result = "pending"
    /\ c_strategy = ""

\* RawAfter for a strategy working on the table it is handed, not on a copy
RawAfterInPlace(raw, cleaned) == [i \in 1..Len(raw) |-> cleaned[i].value]

\* raw_data after a call that produced the table `cleaned`: every strategy
\* starts with df_clean = data.copy() and clean() writes to clean_data only
RawAfter(raw, cleaned) == raw

\* apply_cleaner_strategy(strategy): None without raw_data, else what the
\* strategy returns for (raw_data, limits)
ApplyStrategy(name, table) ==
    /\ c_strategy' = name
    /\ IF ~c_loaded
       THEN c_result' = "none" /\ c_returned' = <<>>
       ELSE c_result' = "table" /\ c_returned' = table
    /\ raw_data' = IF c_loaded THEN RawAfter(raw_data, table) ELSE raw_data
    /\ UNCHANGED <<c_param, c_loaded, c_limits, clean_data>>
    /\ UNCHANGED <<nvars, fvars, avars, mvars, svars, lvars, pvars, jvars, wvars, xvars, hvars>>

ApplyStandard == ApplyStrategy("standard", StandardClean(raw_data, c_limits))

ApplyRemoveOutliers == ApplyStrategy("remove_outliers", RemoveOutliersClean(raw_data))

ApplySmart == ApplyStrategy("smart", SmartClean(raw_data, c_param, c_limits))

\* CPLogCleaner.clean(): None without rows, else the standard strategy and the
\* conversion loop; the table is stored in clean_data and returned
CleanerClean ==
    /\ c_strategy' = "clean"
    /\ IF ~c_loaded \/ raw_data = <<>>
       THEN /\ c_result' = "none"
            /\ c_returned' = <<>>
            /\ UNCHANGED <<clean_data, raw_data>>
       ELSE /\ c_result' = "table"
            /\ clean_data' = Normalized(StandardClean(raw_data, c_limits),
                                        c_param, c_limits)
            /\ c_returned' = clean_data'
            /\ raw_data' = RawAfter(raw_data, clean_data')
    /\ UNCHANGED <<c_param, c_loaded, c_limits>>
    /\ UNCHANGED <<nvars, fvars, avars, mvars, svars, lvars, pvars, jvars, wvars, xvars, hvars>>

-----------------------------------------------------------------------------
(* main.py: process_batch and main *)

MaxBatches == 3

\* a batch directory, by what its processing meets: whether parse_all_files
\* finds records in it, and whether generate_all_reports returns a path
Batch(records, report) == [records |-> records, report |-> report]

BatchKinds == {Batch(FALSE, FALSE), Batch(TRUE, FALSE), Batch(TRUE, TRUE)}

\* CPLogCleaner.load_data on a directory: False when parse_all_files returns
\* no dataset
load_data(batch) == batch.records

\* process_batch: False when the data cannot be loaded, when cleaning returns
\* None (clean() does for a table without rows, and a loaded table has rows),
\* or when no report index is produced
process_batch(batch) ==
    IF ~load_data(batch) THEN FALSE
    ELSE LET df_clean_is_none == ~batch.records
         IN  IF df_clean_is_none THEN FALSE
             ELSE IF ~batch.report THEN FALSE
             ELSE TRUE

\* ExitStatus with the two statuses exchanged
ExitStatusInverted(count) == IF count > 0 THEN 1 ELSE 0

\* return 0 if success_count > 0 else 1
ExitStatus(count) == IF count > 0 THEN 0 ELSE 1

RECURSIVE BatchLists(_)
BatchLists(n) ==
    IF n = 0 THEN {<<>>}
    ELSE BatchLists(n - 1) \cup
         {Append(l, b) : l \in {k \in BatchLists(n - 1) : Len(k) = n - 1},
                         b \in BatchKinds}

MainIdle ==
    /\ batch_dirs = <<>>
    /\ m_results = <<>>
    /\ success_count = 0
    /\ m_exit = -1
    /\ m_pc = "idle"

MainStart ==
    /\ batch_dirs \in BatchLists(MaxBatches)
    /\ m_results = <<>>
    /\ success_count = 0
    /\ m_exit = -1
    /\ m_pc = "loop"

\* no batch directory in the data directory: return 1
NoBatchDirs ==
    /\ m_pc = "loop"
    /\ batch_dirs = <<>>
    /\ m_exit' = 1
    /\ m_pc' = "done"
    /\ UNCHANGED <<batch_dirs, m_results, success_count>>
    /\ UNCHANGED <<nvars, fvars, avars, cvars, svars, lvars, pvars, jvars, wvars, xvars, hvars>>

\* one iteration of the loop over batch_dirs
ProcessNextBatch ==
    /\ m_pc = "loop"
    /\ Len(m_results) < Len(batch_dirs)
    /\ LET ok == process_batch(batch_dirs[Len(m_results) + 1])
       IN  /\ m_results' = Append(m_results, ok)
           /\ success_count' = IF ok THEN success_count + 1 ELSE success_count
    /\ UNCHANGED <<batch_dirs, m_exit, m_pc>>
    /\ UNCHANGED <<nvars, fvars, avars, cvars, svars, lvars, pvars, jvars, wvars, xvars, hvars>>

\* after the loop: the index page (its errors are caught) and the exit status
FinishMain ==
    /\ m_pc = "loop"
    /\ batch_dirs # <<>>
    /\ Len(m_results) = Len(batch_dirs)
    /\ m_exit' = ExitStatus(success_count)
    /\ m_pc' = "done"
    /\ UNCHANGED <<batch_dirs, m_results, success_count>>
    /\ UNCHANGED <<nvars, fvars, avars, cvars, svars, lvars, pvars, jvars, wvars, xvars, hvars>>

-----------------------------------------------------------------------------
(* data_analyzer.py: CPDataAnalyzer.calculate_statistics *)

MaxSamples == 3

\* Series.std() (sample standard deviation) of the non-missing entries of the
\* integer column x: NaN with fewer than two of them, else the number whose
\* square times n*n*(n-1) is ss
SampleStd(x, present) ==
    LET n == Cardinality(present)
        len == Cardinality(DOMAIN x)
        S == SumTo([i \in DOMAIN x |-> IF i \in present THEN x[i] ELSE 0], len)
        sq == [i \in DOMAIN x |->
                 IF i \in present THEN (n * x[i] - S) * (n * x[i] - S) ELSE 0]
    IN  IF n < 2 THEN [nan |-> TRUE, ss |-> 0]
        ELSE [nan |-> FALSE, ss |-> SumTo(sq, len)]

\* the literal 0.0
ZeroStd == [nan |-> FALSE, ss |-> 0]

\* 20 times the linear interpolation between the order statistics around the
\* fractional position pos / 20 (counted from 0)
QuantileAt(x, present, pos) ==
    LET k == pos \div 20
        r == pos % 20
    IN  IF r = 0 THEN 20 * KthSmallest(x, present, k + 1)
        ELSE (20 - r) * KthSmallest(x, present, k + 1)
             + r * KthSmallest(x, present, k + 2)

\* Quantile20 measuring the fraction from the largest value
Quantile20Mirrored(x, present, q20) ==
    QuantileAt(x, present, (Cardinality(present) - 1) * (20 - q20))

\* 20 * Series.quantile(q20 / 20): the position is (n - 1) * q
Quantile20(x, present, q20) ==
    QuantileAt(x, present, (Cardinality(present) - 1) * q20)

\* 20 * Series.median(): the middle value, or the mean of the two middle ones
Median20(x, present) ==
    LET n == Cardinality(present)
    IN  IF n % 2 = 1 THEN 20 * KthSmallest(x, present, (n + 1) \div 2)
        ELSE 10 * (KthSmallest(x, present, n \div 2)
                   + KthSmallest(x, present, n \div 2 + 1))

\* CountOf counting the missing entries too
CountOfAllRows(x, present) == Cardinality(DOMAIN x)

\* int(len(data)) of the column after dropna()
CountOf(x, present) == Cardinality(present)

\* the statistics every bucket has, on the non-missing entries `present` of
\* the integer column x; median, min, max and range are 20 times their value
BaseStats(x, present, std) ==
    LET len == Cardinality(DOMAIN x)
        low == KthSmallest(x, present, 1)
        high == KthSmallest(x, present, Cardinality(present))
    IN  [mean |-> [sum |-> SumTo([i \in DOMAIN x |->
                                    IF i \in present THEN x[i] ELSE 0], len),
                   n |-> Cardinality(present)],
         median |-> Median20(x, present),
         std |-> std,
         min |-> 20 * low,
         max |-> 20 * high,
         count |-> CountOf(x, present),
         range |-> 20 * (high - low)]

\* the overall bucket: std is data.std() as it comes; the quantiles are added
OverallStats(x, present) ==
    LET base == BaseStats(x, present, SampleStd(x, present))
    IN  [f \in DOMAIN base \cup {"q10", "q25", "q50", "q75", "q90"} |->
            CASE f = "q10" -> Quantile20(x, present, 2)
              [] f = "q25" -> Quantile20(x, present, 5)
              [] f = "q50" -> Quantile20(x, present, 10)
              [] f = "q75" -> Quantile20(x, present, 15)
              [] f = "q90" -> Quantile20(x, present, 18)
              [] OTHER -> base[f]]

\* a wafer's std: wafer_data.std() with more than one value, else 0.0
LotStd(x, present) ==
    IF Cardinality(present) > 1 THEN SampleStd(x, present) ELSE ZeroStd

\* a wafer's bucket
LotStats(x, present) == BaseStats(x, present, LotStd(x, present))

Wafers == {"01", "02"}

StatValues == {NONE, Dec(-3, 0), Dec(1, 0), Dec(35, -1), Dec(7, 0)}

StatRow(wafer, value) == [wafer |-> wafer, value |-> value]

RECURSIVE StatTables(_)
StatTables(n) ==
    IF n = 0 THEN {<<>>}
    ELSE StatTables(n - 1) \cup
         {Append(t, StatRow(w, v)) :
             t \in {u \in StatTables(n - 1) : Len(u) = n - 1},
             w \in Wafers, v \in StatValues}

\* the rows with a non-missing value, of all wafers or of one
Samples(rows) == {i \in 1..Len(rows) : rows[i].value # NONE}
SamplesOf(rows, wafer) == {i \in Samples(rows) : rows[i].wafer = wafer}

NoStats == [count |-> 0]
NoLots == [w \in {} |-> NoStats]

\* len(data) == 0 on the non-missing values of the column
HasSamples(rows) == Samples(rows) # {}

StatsIdle ==
    /\ s_column = "none"
    /\ s_rows = <<>>
    /\ s_overall = NoStats
    /\ s_by_lot = NoLots
    /\ s_pc = "idle"

StatsStart ==
    /\ s_column \in {"none", "absent", "present"}
    /\ s_rows \in IF s_column = "none" THEN {<<>>} ELSE StatTables(MaxSamples)
    /\ s_column = "absent" => \A i \in 1..Len(s_rows) : s_rows[i].value = NONE
    /\ s_overall = NoStats
    /\ s_by_lot = NoLots
    /\ s_pc = "ready"

\* calculate_statistics(param)
CalculateStatistics ==
    /\ s_pc = "ready"
    /\ IF s_column # "present" \/ ~HasSamples(s_rows)
       THEN /\ s_pc' = "none"
            /\ UNCHANGED <<s_overall, s_by_lot>>
       ELSE LET x == [i \in 1..Len(s_rows) |-> Halves(s_rows[i].value)]
            IN  /\ s_pc' = "stats"
                /\ s_overall' = OverallStats(x, Samples(s_rows))
                /\ s_by_lot' =
                     [w \in {v \in Wafers : SamplesOf(s_rows, v) # {}} |->
                         LotStats(x, SamplesOf(s_rows, w))]
    /\ UNCHANGED <<s_column, s_rows>>
    /\ UNCHANGED <<nvars, fvars, avars, cvars, mvars, lvars, pvars, jvars, wvars, xvars, hvars>>

-----------------------------------------------------------------------------
(* log_parser.py: CPLogParser._parse_file, header row and data-start row *)

MaxFileLines == 3

\* a stripped line, by what the searches look at: header is "nou" for a line
\* containing 'No.U' (or X, Y and Bin), "params" for one with at least three
\* target parameter names among its fields, "mention" for one in which three
\* names occur but not as fields of their own; first tells whether the first tab-separated field is
\* empty ("none", a blank line), all digits, digit-led but not all digits
\* ("mixed") or led by another character ("text"); fields counts the
\* tab-separated fields (3 stands for three or more); marked is whether the
\* line contains 'LimitU', 'LimitL' or 'Bias'; valid is whether a target
\* parameter's cell holds a value
FileLine(header, first, fields, marked, valid) ==
    [header |-> header, first |-> first, fields |-> fields, marked |-> marked,
     valid |-> valid]

LineKinds ==
    {FileLine("nou", "text", 3, FALSE, FALSE),     \* No.U  X  Y  Bin  VTH ...
     FileLine("params", "text", 3, FALSE, FALSE),  \* VTH  BVDSS1  IDSS1
     FileLine("mention", "text", 1, FALSE, FALSE), \* Params: VTH, BVDSS1, IDSS1
     FileLine("no", "none", 0, FALSE, FALSE),      \* blank
     FileLine("no", "text", 3, TRUE, FALSE),       \* LimitU  4.0V  ...
     FileLine("no", "digits", 3, TRUE, TRUE),      \* 1  Bias  2.5
     FileLine("no", "digits", 1, FALSE, FALSE),    \* 2024
     FileLine("no", "digits", 2, FALSE, FALSE),     \* 1  2
     FileLine("no", "mixed", 3, FALSE, TRUE),      \* 1A  2  2.5
     FileLine("no", "digits", 3, FALSE, TRUE),     \* 1  2  2.5
     FileLine("no", "digits", 3, FALSE, FALSE)}    \* 1  2  999.9

RECURSIVE Files(_)
Files(n) ==
    IF n = 0 THEN {<<>>}
    ELSE Files(n - 1) \cup
         {Append(f, line) : f \in {g \in Files(n - 1) : Len(g) = n - 1},
                            line \in LineKinds}

\* the index of the first line of one of the header kinds, 0 when there is none
FirstLine(lines, kinds) ==
    LET hits == {i \in 1..Len(lines) : lines[i].header \in kinds}
    IN  IF hits = {} THEN 0 ELSE CHOOSE i \in hits : \A j \in hits : i <= j

\* params_line_idx: the first 'No.U' line, else the first line in which at
\* least three target parameter names occur (`param in line`)
HeaderIndex(lines) ==
    IF FirstLine(lines, {"nou"}) # 0 THEN FirstLine(lines, {"nou"})
    ELSE FirstLine(lines, {"params", "mention"})

\* IsDataStart without the test of the whole first field
IsDataStartLeadingDigit(line) ==
    /\ line.first \in {"digits", "mixed"}
    /\ ~line.marked
    /\ line.fields >= 3

\* the test of the data-start search: non-empty, first character a digit, no
\* 'LimitU' / 'LimitL' / 'Bias', a tab, three fields, first field all digits
IsDataStart(line) ==
    /\ line.first \in {"digits", "mixed"}
    /\ ~line.marked
    /\ line.fields >= 2
    /\ line.fields >= 3 /\ line.first = "digits"

\* the test of the data loop: not blank, first field all digits, three fields
IsDataRow(line) ==
    /\ line.first # "none"
    /\ ~(line.first # "digits" \/ line.fields < 3)

LocateIdle ==
    /\ l_lines = <<>>
    /\ l_header = 0
    /\ l_start = 0
    /\ l_i = 0
    /\ l_records = <<>>
    /\ l_pc = "idle"

LocateStart ==
    /\ l_lines \in Files(MaxFileLines)
    /\ l_header = 0
    /\ l_start = 0
    /\ l_i = 0
    /\ l_records = <<>>
    /\ l_pc = "ready"

\* the search for the parameter-name row
FindHeader ==
    /\ l_pc = "ready"
    /\ l_header' = HeaderIndex(l_lines)
    /\ IF HeaderIndex(l_lines) = 0
       THEN l_pc' = "empty" /\ UNCHANGED l_i
       ELSE l_pc' = "locate" /\ l_i' = HeaderIndex(l_lines) + 1
    /\ UNCHANGED <<l_lines, l_start, l_records>>
    /\ UNCHANGED <<nvars, fvars, avars, cvars, mvars, svars, pvars, jvars, wvars, xvars, hvars>>

\* one iteration of the data-start search
LocateStep ==
    /\ l_pc = "locate"
    /\ l_i <= Len(l_lines)
    /\ IF IsDataStart(l_lines[l_i])
       THEN l_start' = l_i /\ l_pc' = "data" /\ UNCHANGED l_i
       ELSE l_i' = l_i + 1 /\ UNCHANGED <<l_start, l_pc>>
    /\ UNCHANGED <<l_lines, l_header, l_records>>
    /\ UNCHANGED <<nvars, fvars, avars, cvars, mvars, svars, pvars, jvars, wvars, xvars, hvars>>

\* the data-start search ran off the end: return [], {}
LocateFail ==
    /\ l_pc = "locate"
    /\ l_i > Len(l_lines)
    /\ l_pc' = "empty"
    /\ UNCHANGED <<l_lines, l_header, l_start, l_i, l_records>>
    /\ UNCHANGED <<nvars, fvars, avars, cvars, mvars, svars, pvars, jvars, wvars, xvars, hvars>>

\* one iteration of the data loop: a data row with a valid cell is appended
DataStep ==
    /\ l_pc = "data"
    /\ l_i <= Len(l_lines)
    /\ l_records' = IF IsDataRow(l_lines[l_i]) /\ l_lines[l_i].valid
                    THEN Append(l_records, l_i)
                    ELSE l_records
    /\ l_i' = l_i + 1
    /\ UNCHANGED <<l_lines, l_header, l_start, l_pc>>
    /\ UNCHANGED <<nvars, fvars, avars, cvars, mvars, svars, pvars, jvars, wvars, xvars, hvars>>

\* the data loop ran off the end: return data_records, limits
FinishLocate ==
    /\ l_pc = "data"
    /\ l_i > Len(l_lines)
    /\ l_pc' = "done"
    /\ UNCHANGED <<l_lines, l_header, l_start, l_i, l_records>>
    /\ UNCHANGED <<nvars, fvars, avars, cvars, mvars, svars, pvars, jvars, wvars, xvars, hvars>>

-----------------------------------------------------------------------------
(* unit_adjuster.py: adjust_json_file *)

MaxItems == 2

\* a record: the parameter value (NONE when null), whether it has a "LimitU"
\* key, and its "Unit" (NoUnit when the key is absent)
Item(value, has_limit, unit) ==
    [value |-> value, has_limit |-> has_limit, unit |-> unit]

JsonValues == {NONE, Dec(5, -1), Dec(5, 2), Dec(25, -8)}

JsonLimits ==
    {LimitTok(Dec(8, 0), ""), LimitTok(Dec(365, 0), ""),
     LimitTok(Dec(365, 0), "mOHM"), LimitTok(Dec(3, 0), "mOHM"),
     LimitTok(Dec(365, -3), "OHM"), LimitTok(Dec(900, 0), "V"),
     LimitTok(Dec(1000, 0), "mV"), LimitTok(Dec(250, 0), "nA"),
     LimitTok(Dec(25, -8), "")}

RECURSIVE ItemLists(_)
ItemLists(n) ==
    IF n = 0 THEN {<<>>}
    ELSE ItemLists(n - 1) \cup
         {Append(t, Item(v, h, u)) :
             t \in {s \in ItemLists(n - 1) : Len(s) = n - 1},
             v \in JsonValues, h \in BOOLEAN, u \in {NoUnit, "mohm"}}

\* target_unit as decided from the first record's LimitU
TargetUnit(param, limit_u) ==
    LET lim == parse_limit_value(limit_u)
    IN  CASE param = "RDSON1" ->
               IF Gt(lim.value, Dec(5, 0)) THEN "mohm" ELSE "ohm"
          [] param \in LeakageParams -> "na"
          [] param = "IDSS3" -> "ua"
          [] param \in VoltageParams ->
               IF lim.unit # "" /\ Contains(lim.unit, "mv") THEN "mv" ELSE "v"
          [] OTHER -> ""

\* one turn of the record loop
AdjustItem(item, param, limit_u, target_unit) ==
    IF ~item.has_limit \/ item.value = NONE THEN item
    ELSE Item(adjust_unit(item.value, param, limit_u), item.has_limit,
              IF target_unit # "" THEN target_unit ELSE item.unit)

JsonIdle ==
    /\ j_param = "VTH"
    /\ j_limit = LimitTok(Zero, "")
    /\ j_raw = <<>>
    /\ j_items = <<>>
    /\ j_target = ""
    /\ j_pc = "idle"

JsonStart ==
    /\ j_param \in NormParams
    /\ j_limit \in JsonLimits
    /\ j_items \in ItemLists(MaxItems)
    /\ j_raw = [i \in 1..Len(j_items) |-> j_items[i].value]
    /\ j_target = ""
    /\ j_pc = "ready"

\* adjust_json_file(json_file)
AdjustJsonFile ==
    /\ j_pc = "ready"
    /\ IF j_param \notin SupportedParams
       THEN j_pc' = "skipped" /\ UNCHANGED <<j_items, j_target>>
       ELSE LET target_unit == IF j_items # <<>> /\ j_items[1].has_limit
                               THEN TargetUnit(j_param, j_limit)
                               ELSE ""
            IN  /\ j_target' = target_unit
                /\ j_items' = [i \in 1..Len(j_items) |->
                                 AdjustItem(j_items[i], j_param, j_limit, target_unit)]
                /\ j_pc' = "done"
    /\ UNCHANGED <<j_param, j_limit, j_raw>>
    /\ UNCHANGED <<nvars, fvars, avars, cvars, mvars, svars, lvars, pvars, wvars, xvars, hvars>>

-----------------------------------------------------------------------------
(* log_parser.py: CPLogParser._parse_file, the search for the limit rows *)

\* the 10 of range(params_line_idx + 1, min(params_line_idx + 10, len(lines)))
WindowSpan == 10

MaxFill == 10
MaxMarkerLines == 2

\* what a line contains: "upper" (LimitU or USL), "lower" (LimitL or LSL),
\* "both" or "none"
MarkerKinds == {"none", "upper", "lower", "both"}

HasUpperMarker(kind) == kind \in {"upper", "both"}
HasLowerMarker(kind) == kind \in {"lower", "both"}

RECURSIVE MarkerTails(_)
MarkerTails(n) ==
    IF n = 0 THEN {<<>>}
    ELSE MarkerTails(n - 1) \cup
         {Append(t, k) : t \in {s \in MarkerTails(n - 1) : Len(s) = n - 1},
                         k \in MarkerKinds}

\* the files: the header row, some lines without a marker, then a few
\* arbitrary lines
MarkerFiles ==
    {<<"none">> \o [i \in 1..k |-> "none"] \o t :
        k \in 0..MaxFill, t \in MarkerTails(MaxMarkerLines)}

\* the index after the last one the loop visits, the header being line 1:
\* min(params_line_idx + 10, len(lines)) in 1-based terms
WindowEnd(lines) == Min(WindowSpan, Len(lines))

WindowIdle ==
    /\ w_lines = <<>>
    /\ w_i = 0
    /\ w_upper = 0
    /\ w_lower = 0
    /\ w_pc = "idle"

WindowStart ==
    /\ w_lines \in MarkerFiles
    /\ w_i = 2
    /\ w_upper = 0
    /\ w_lower = 0
    /\ w_pc = "scan"

\* one iteration of the loop: an upper marker sets limit_u_idx, else a lower
\* marker sets limit_l_idx
ScanLimitRow ==
    /\ w_pc = "scan"
    /\ w_i <= WindowEnd(w_lines)
    /\ IF HasUpperMarker(w_lines[w_i])
       THEN w_upper' = w_i /\ UNCHANGED w_lower
       ELSE IF HasLowerMarker(w_lines[w_i])
       THEN w_lower' = w_i /\ UNCHANGED w_upper
       ELSE UNCHANGED <<w_upper, w_lower>>
    /\ w_i' = w_i + 1
    /\ UNCHANGED <<w_lines, w_pc>>
    /\ UNCHANGED <<nvars, fvars, avars, cvars, mvars, svars, lvars, pvars, jvars, xvars, hvars>>

\* the loop ran off the end of its range
LimitRowsDone ==
    /\ w_pc = "scan"
    /\ w_i > WindowEnd(w_lines)
    /\ w_pc' = "done"
    /\ UNCHANGED <<w_lines, w_i, w_upper, w_lower>>
    /\ UNCHANGED <<nvars, fvars, avars, cvars, mvars, svars, lvars, pvars, jvars, xvars, hvars>>

-----------------------------------------------------------------------------
(* main.py: process_batch, clean() followed by export_json(export_by_param=True) *)

MaxExportRows == 2

ExportParams == {"RDSON1", "IGSSR2", "IDSS3", "BVDSS1", "VTH"}

ExportValues == {NONE, Dec(5, -4), Dec(-12, -10), Dec(35, -1)}

ExportUppers == {NONE, Dec(365, 0), Dec(1, 2), Dec(4, 0)}

RECURSIVE Columns(_)
Columns(n) ==
    IF n = 0 THEN {<<>>}
    ELSE Columns(n - 1) \cup
         {Append(t, v) : t \in {u \in Columns(n - 1) : Len(u) = n - 1},
                         v \in ExportValues}

\* the value written for a row: adjust_unit is applied to the cleaned value
\* whenever the parameter has an upper limit
ExportValue(value, param, upper) ==
    IF upper # NONE THEN adjust_unit(value, param, LimitTok(upper, ""))
    ELSE value

\* the records of one parameter: one per row whose value is not missing
RECURSIVE ExportRecords(_, _, _, _)
ExportRecords(column, param, upper, i) ==
    IF i > Len(column) THEN <<>>
    ELSE (IF column[i] = NONE THEN <<>>
          ELSE <<[row |-> i, value |-> ExportValue(column[i], param, upper)]>>)
         \o ExportRecords(column, param, upper, i + 1)

ExportIdle ==
    /\ x_param = "VTH"
    /\ x_upper = NONE
    /\ x_raw = <<>>
    /\ x_clean = <<>>
    /\ x_records = <<>>
    /\ x_pc = "idle"

ExportStart ==
    /\ x_param \in ExportParams
    /\ x_upper \in ExportUppers
    /\ x_raw \in Columns(MaxExportRows)
    /\ x_clean = <<>>
    /\ x_records = <<>>
    /\ x_pc = "loaded"

\* df_clean = cleaner.clean(): None without rows (process_batch gives up),
\* else the standard strategy and the conversion loop
CleanForExport ==
    /\ x_pc = "loaded"
    /\ IF x_raw = <<>>
       THEN x_pc' = "failed" /\ UNCHANGED x_clean
       ELSE /\ x_pc' = "cleaned"
            /\ x_clean' =
                 LET lims == [upper |-> x_upper, lower |-> NONE]
                     table == Normalized(StandardClean(x_raw, lims), x_param, lims)
                 IN  [i \in 1..Len(table) |-> table[i].value]
    /\ UNCHANGED <<x_param, x_upper, x_raw, x_records>>
    /\ UNCHANGED <<nvars, fvars, avars, cvars, mvars, svars, lvars, pvars, jvars, wvars, hvars>>

\* cleaner.export_json(export_by_param=True)
ExportJson ==
    /\ x_pc = "cleaned"
    /\ x_records' = ExportRecords(x_clean, x_param, x_upper, 1)
    /\ x_pc' = "exported"
    /\ UNCHANGED <<x_param, x_upper, x_raw, x_clean>>
    /\ UNCHANGED <<nvars, fvars, avars, cvars, mvars, svars, lvars, pvars, jvars, wvars, hvars>>

(* _parse_file on lines whose fields do not line up: a header line with     *)
(* empty fields, limit rows shorter than the header                         *)

MaxFields == 4

\* line.strip().split('\t') on a line given as its tab-separated fields:
\* strip() removes the leading and the trailing empty fields
RECURSIVE StripFields(_, _)
StripFields(fields, blank) ==
    IF fields = <<>> THEN <<>>
    ELSE IF Head(fields) = blank THEN StripFields(Tail(fields), blank)
    ELSE IF fields[Len(fields)] = blank
         THEN StripFields(SubSeq(fields, 1, Len(fields) - 1), blank)
    ELSE fields

\* [p.strip() for p in param_names if p.strip()]
NonEmptyField(field) == field # ""

ParamNames(header) == SelectSeq(StripFields(header, ""), NonEmptyField)

\* values.extend([''] * (len(param_names) - len(values)))
Padded(values, n) ==
    [i \in 1..(IF Len(values) < n THEN n ELSE Len(values)) |->
        IF i <= Len(values) THEN values[i] ELSE Cell("empty", NONE)]

\* the data line is used: first field all digits and at least 3 fields
UsedLine(values) == Len(values) >= 3 /\ values[1].kind = "num"

\* header lines: No.U, then VTH and BVDSS1 (at most once each) and empty
\* fields, in any order
HeaderFields == {"", "VTH", "BVDSS1"}

HeaderTails ==
    {t \in UNION {[1..n -> HeaderFields] : n \in 2..(MaxFields - 1)} :
        /\ \E i \in DOMAIN t : t[i] # ""
        /\ \A i, j \in DOMAIN t : (i # j /\ t[i] = t[j]) => t[i] = ""}

RawHeaders == {<<"No.U">> \o t : t \in HeaderTails}

\* limit rows: the label, then up to MaxFields - 1 tokens
RowToks == {NumTok(Dec(4, 0), FALSE, "V"), NumTok(Dec(900, 0), FALSE, "V")}

LimitRows ==
    {<<TextTok>> \o t : t \in UNION {[1..n -> RowToks] : n \in 0..(MaxFields - 1)}}

LowerRows ==
    {[i \in 1..n |-> IF i = 1 THEN TextTok ELSE NumTok(Dec(3, 0), FALSE, "V")] :
        n \in {2, MaxFields}}

\* data lines: the serial number, then up to MaxFields - 1 cells
AlignCells == {Cell("empty", NONE), Cell("num", Dec(35, -1)), Cell("num", Dec(700, 0))}

AlignLines ==
    {<<Cell("num", Dec(1, 0))>> \o t :
        t \in UNION {[1..n -> AlignCells] : n \in 2..(MaxFields - 1)}}

AlignIdle ==
    /\ h_header = <<>>
    /\ h_names = <<>>
    /\ h_limit_u = <<>>
    /\ h_limit_l = <<>>
    /\ h_limits = EmptyDict
    /\ h_units = EmptyDict
    /\ h_lines = <<>>
    /\ h_records = <<>>
    /\ h_pc = "idle"

\* _parse_file up to the data loop: header and limit rows read
AlignStart ==
    /\ h_header \in RawHeaders
    /\ h_names = ParamNames(h_header)
    /\ h_limit_u \in LimitRows
    /\ h_limit_l \in LowerRows
    /\ h_limits = FileLimits(h_names, StripFields(h_limit_u, EmptyTok),
                             StripFields(h_limit_l, EmptyTok))
    /\ h_units = FileUnits(h_limits)
    /\ h_lines = <<>>
    /\ h_records = <<>>
    /\ h_pc = "scan"

\* one iteration of the data loop: a line with fewer than 3 fields is
\* skipped, any other is padded to the header's length and read by position
ReadDataLine ==
    /\ h_pc = "scan"
    /\ h_lines = <<>>
    /\ \E line \in AlignLines :
          LET values == StripFields(line, Cell("empty", NONE))
              st == ExtractFrom(1, h_names, Padded(values, Len(h_names)),
                        [vals |-> EmptyDict, units |-> h_units, valid |-> 0])
              record == [line |-> Len(h_lines) + 1, vals |-> st.vals]
          IN  /\ h_lines' = Append(h_lines, line)
              /\ h_units' = IF UsedLine(values) THEN st.units ELSE h_units
              /\ h_records' = IF UsedLine(values) /\ Retained(st.valid)
                              THEN Append(h_records, record)
                              ELSE h_records
    /\ UNCHANGED <<h_header, h_names, h_limit_u, h_limit_l, h_limits, h_pc>>
    /\ UNCHANGED <<nvars, fvars, avars, cvars, mvars, svars, lvars, pvars, jvars, wvars, xvars>>

\* end of file: return data_records, limits
FinishAlign ==
    /\ h_pc = "scan"
    /\ h_lines # <<>>
    /\ h_pc' = "done"
    /\ UNCHANGED <<h_header, h_names, h_limit_u, h_limit_l, h_limits, h_units,
                   h_lines, h_records>>
    /\ UNCHANGED <<nvars, fvars, avars, cvars, mvars, svars, lvars, pvars, jvars, wvars, xvars>>

-----------------------------------------------------------------------------
(* Specifications *)

NormInit ==
    NormStart /\ FileIdle /\ AllIdle /\ CleanIdle /\ MainIdle /\ StatsIdle
    /\ LocateIdle /\ LimitIdle /\ JsonIdle /\ WindowIdle /\ ExportIdle
    /\ AlignIdle

NormNext == NormalizePass

SpecNorm == NormInit /\ [][NormNext]_vars

ParseNext == ParseLine \/ SkipLine \/ FinishFile

ParseInit ==
    FileStart /\ NormIdle /\ AllIdle /\ CleanIdle /\ MainIdle /\ StatsIdle
    /\ LocateIdle /\ LimitIdle /\ JsonIdle /\ WindowIdle /\ ExportIdle
    /\ AlignIdle

SpecParse == ParseInit /\ [][ParseNext]_vars

AllInit ==
    AllStart /\ NormIdle /\ FileIdle /\ CleanIdle /\ MainIdle /\ StatsIdle
    /\ LocateIdle /\ LimitIdle /\ JsonIdle /\ WindowIdle /\ ExportIdle
    /\ AlignIdle

AllNext ==
    NoFiles \/ LimitsOfFile \/ LimitsDone \/ FillDefaults \/ RecordsOfFile \/ ReturnAll

SpecAll == AllInit /\ [][AllNext]_vars

CleanInit ==
    CleanStart /\ NormIdle /\ FileIdle /\ AllIdle /\ MainIdle /\ StatsIdle
    /\ LocateIdle /\ LimitIdle /\ JsonIdle /\ WindowIdle /\ ExportIdle
    /\ AlignIdle

CleanNext == ApplyStandard \/ ApplyRemoveOutliers \/ ApplySmart \/ CleanerClean

SpecClean == CleanInit /\ [][CleanNext]_vars

MainInit ==
    MainStart /\ NormIdle /\ FileIdle /\ AllIdle /\ CleanIdle /\ StatsIdle
    /\ LocateIdle /\ LimitIdle /\ JsonIdle /\ WindowIdle /\ ExportIdle
    /\ AlignIdle

MainNext == NoBatchDirs \/ ProcessNextBatch \/ FinishMain

SpecMain == MainInit /\ [][MainNext]_vars

StatsInit ==
    StatsStart /\ NormIdle /\ FileIdle /\ AllIdle /\ CleanIdle /\ MainIdle
    /\ LocateIdle /\ LimitIdle /\ JsonIdle /\ WindowIdle /\ ExportIdle
    /\ AlignIdle

StatsNext == CalculateStatistics

SpecStats == StatsInit /\ [][StatsNext]_vars

LocateInit ==
    LocateStart /\ NormIdle /\ FileIdle /\ AllIdle /\ CleanIdle /\ MainIdle
    /\ StatsIdle /\ LimitIdle /\ JsonIdle /\ WindowIdle /\ ExportIdle
    /\ AlignIdle

LocateNext ==
    FindHeader \/ LocateStep \/ LocateFail \/ DataStep \/ FinishLocate

SpecLocate == LocateInit /\ [][LocateNext]_vars

LimitInit ==
    LimitStart /\ NormIdle /\ FileIdle /\ AllIdle /\ CleanIdle /\ MainIdle
    /\ StatsIdle /\ LocateIdle /\ JsonIdle /\ WindowIdle /\ ExportIdle
    /\ AlignIdle

LimitNext == ParseLimit

SpecLimit == LimitInit /\ [][LimitNext]_vars

JsonInit ==
    JsonStart /\ NormIdle /\ FileIdle /\ AllIdle /\ CleanIdle /\ MainIdle
    /\ StatsIdle /\ LocateIdle /\ LimitIdle /\ WindowIdle /\ ExportIdle
    /\ AlignIdle

JsonNext == AdjustJsonFile

SpecJson == JsonInit /\ [][JsonNext]_vars

WindowInit ==
    WindowStart /\ NormIdle /\ FileIdle /\ AllIdle /\ CleanIdle /\ MainIdle
    /\ StatsIdle /\ LocateIdle /\ LimitIdle /\ JsonIdle /\ ExportIdle
    /\ AlignIdle

WindowNext == ScanLimitRow \/ LimitRowsDone

SpecWindow == WindowInit /\ [][WindowNext]_vars

ExportInit ==
    ExportStart /\ NormIdle /\ FileIdle /\ AllIdle /\ CleanIdle /\ MainIdle
    /\ StatsIdle /\ LocateIdle /\ LimitIdle /\ JsonIdle /\ WindowIdle
    /\ AlignIdle

ExportNext == CleanForExport \/ ExportJson

SpecExport == ExportInit /\ [][ExportNext]_vars

AlignInit ==
    /\ NormIdle /\ FileIdle /\ AllIdle /\ CleanIdle /\ MainIdle /\ StatsIdle
    /\ LocateIdle /\ LimitIdle /\ JsonIdle /\ WindowIdle /\ ExportIdle
    /\ AlignStart

AlignNext == ReadDataLine \/ FinishAlign

SpecAlign == AlignInit /\ [][AlignNext]_vars

-----------------------------------------------------------------------------
(* Claims *)

\* C1: unit normalization is idempotent: once a pass has run, a further
\* adjust_unit with the same parameter and limit leaves the value unchanged.
NormalizeIdempotent ==
    n_passes >= 1 => adjust_unit(n_value, n_param, n_limit) = n_value

\* the cell of parameter p on line i of the data loop
CellAt(i, p) == f_lines[i].cells[IndexOf(f_param_names, p)]

BothLimitRows == f_limit_u # <<>> /\ f_limit_l # <<>>

\* the upper limit field of parameter p as the file states it
StatedUpper(p) == LimitField(f_limit_u, IndexOf(f_param_names, p))

\* C5: when the file's limit row states RDSON1 in plain ohms, every RDSON1
\* value extracted from the file is the raw cell value times 1000, tagged mohm.
OhmFileConvertsEveryValue ==
    (/\ BothLimitRows
     /\ "RDSON1" \in Range(f_param_names)
     /\ StatedUpper("RDSON1").kind = "num"
     /\ Lower(StatedUpper("RDSON1").unit) = "ohm")
    => \A k \in 1..Len(data_records) :
          "RDSON1" \in DOMAIN data_records[k].vals =>
             /\ data_records[k].vals["RDSON1"]
                   = Shift(CellAt(data_records[k].line, "RDSON1").num, 3)
             /\ UnitOf(param_units, "RDSON1") = "mohm"

\* C6: when the unit recorded for a leakage parameter is bare amperes, every
\* value of it extracted from the file is the raw cell value times 1e9; for
\* IDSS3 with bare amperes every value is the raw cell value times 1e6.
AmpereFileConvertsEveryValue ==
    \A p \in DOMAIN limits :
        (p \in CurrentParams /\ limits[p].unit = "a")
        => \A k \in 1..Len(data_records) :
              p \in DOMAIN data_records[k].vals =>
                 data_records[k].vals[p]
                   = Shift(CellAt(data_records[k].line, p).num,
                           IF p = "IDSS3" THEN 6 ELSE 9)

\* C7: a data line yields a record if and only if at least one target
\* parameter of the header has a valid value on it (not empty, not
\* unparseable, not the sentinel); other lines yield no record, and no line
\* yields two.
HasValidCell(i) ==
    \E p \in HeaderTargets(f_param_names) : CellAt(i, p).kind = "num"

RecordIffValidValue ==
    /\ \A i \in 1..Len(f_lines) :
          (\E k \in 1..Len(data_records) : data_records[k].line = i)
          <=> (f_lines[i].kind = "data" /\ HasValidCell(i))
    /\ \A k, l \in 1..Len(data_records) :
          k < l => data_records[k].line < data_records[l].line

\* a line with only empty, unparseable and sentinel cells was dropped and a
\* line with one valid value was kept
RecordIffValidValueWitness ==
    /\ f_pc = "done"
    /\ Len(f_lines) = 2
    /\ Len(data_records) = 1
    /\ data_records[1].line = 2
    /\ f_lines[1].kind = "data"
    /\ f_lines[1].cells[2].kind = "sentinel"
    /\ f_lines[1].cells[3].kind = "bad"
    /\ f_lines[2].cells[2].kind = "empty"
    /\ f_lines[2].cells[3].kind = "num"

\* C8: in every record, a target cell holding the sentinel 999.9 or text
\* that is no float (or nothing) contributes no value, and every valid
\* target cell of the same line is stored.
BadCellDroppedAlone ==
    \A k \in 1..Len(data_records) :
        \A p \in HeaderTargets(f_param_names) :
            (p \in DOMAIN data_records[k].vals)
            <=> (CellAt(data_records[k].line, p).kind = "num")

\* a record built from a line with a sentinel cell and a valid cell, and one
\* built from a line with an unparseable cell and a valid cell
BadCellDroppedAloneWitness ==
    /\ Len(data_records) = 2
    /\ f_lines[1].cells[2].kind = "sentinel"
    /\ f_lines[1].cells[3].kind = "num"
    /\ f_lines[2].cells[2].kind = "num"
    /\ f_lines[2].cells[3].kind = "bad"
    /\ DOMAIN data_records[1].vals = {f_param_names[3]}
    /\ DOMAIN data_records[2].vals = {f_param_names[2]}

\* the files, in processing order, whose limits have an entry for the parameter
Suppliers == {i \in 1..Len(file_limits) : a_param \in DOMAIN file_limits[i]}

Minimum(S) == CHOOSE i \in S : \A j \in S : i <= j

\* C3: while and after the limits of the files are merged, each of upper, lower
\* and unit of the aggregated entry is, independently of the other two, the
\* value of the first file in processing order that has a non-null value for
\* that field, and null when no file has one; there is an entry exactly when
\* some file had one.
FirstSupplierWins ==
    a_pc \in {"limits", "defaults"} =>
        LET ups == {i \in Suppliers : file_limits[i][a_param].upper # NONE}
            lows == {i \in Suppliers : file_limits[i][a_param].lower # NONE}
            units == {i \in Suppliers : file_limits[i][a_param].unit # NoUnit}
        IN  /\ a_param \in DOMAIN all_limits <=> Suppliers # {}
            /\ Suppliers # {} =>
                /\ all_limits[a_param].upper =
                      IF ups = {} THEN NONE
                      ELSE file_limits[Minimum(ups)][a_param].upper
                /\ all_limits[a_param].lower =
                      IF lows = {} THEN NONE
                      ELSE file_limits[Minimum(lows)][a_param].lower
                /\ all_limits[a_param].unit =
                      IF units = {} THEN NoUnit
                      ELSE file_limits[Minimum(units)][a_param].unit

\* three files were merged; all three give an upper limit, only the second a
\* lower one: upper is the first file's, lower the second's
FirstSupplierWinsWitness ==
    /\ a_pc = "defaults"
    /\ Len(file_limits) = 3
    /\ Suppliers = {1, 2, 3}
    /\ \A i \in 1..3 : file_limits[i][a_param].upper = FileUpper(i)
    /\ file_limits[1][a_param].lower = NONE
    /\ file_limits[2][a_param].lower = FileLower(2)
    /\ file_limits[3][a_param].lower = NONE
    /\ all_limits[a_param].upper = FileUpper(1)
    /\ all_limits[a_param].lower = FileLower(2)

\* the parameters of the default table
DefaultTableParams ==
    {"BVDSS1", "BVDSS2", "DELTABV", "IDSS1", "IDSS2", "IDSS3", "VTH", "RDSON1",
     "VFSDS", "IGSS2", "IGSSR2"}

\* C2: when parse_all_files returns a dataset, the returned limits have an
\* entry with a non-null upper and a non-null lower for every target parameter
\* of the default table.
DefaultsCompleteLimits ==
    a_pc = "returned" =>
        \A p \in ExtendedParams(a_param) \cap DefaultTableParams :
            /\ p \in DOMAIN all_limits
            /\ all_limits[p].upper # NONE
            /\ all_limits[p].lower # NONE

\* a dataset was returned for a batch whose files stated a lower limit and no
\* upper limit: the lower is the first file's, the upper the default
DefaultsCompleteLimitsWitness ==
    /\ a_pc = "returned"
    /\ a_param \in DefaultTableParams
    /\ all_limits[a_param].lower = FileLower(1)
    /\ all_limits[a_param].upper = MissingUpper(a_param)

RECURSIVE Concatenation(_)
Concatenation(seqs) ==
    IF seqs = <<>> THEN <<>> ELSE Head(seqs) \o Concatenation(Tail(seqs))

\* C9: the returned dataset is the concatenation, in file order, of the records
\* each file returned; a file that cannot be read or tokenized returned none.
DatasetIsConcatenation ==
    a_pc = "returned" =>
        /\ a_dataset = Concatenation(file_records)
        /\ \A i \in 1..Len(file_ok) : ~file_ok[i] => file_records[i] = <<>>

\* a dataset was returned for three files, the second unusable, the first and
\* the third both with records of units 1 and 2 of the same lot and wafer
DatasetIsConcatenationWitness ==
    /\ a_pc = "returned"
    /\ file_ok = <<TRUE, FALSE, TRUE>>
    /\ Len(file_records[1]) = 2
    /\ Len(file_records[3]) = 2
    /\ Len(a_dataset) = 4
    /\ SameUnit(a_dataset[1], a_dataset[3])

FailedBatchDoesNotStopRun ==
    /\ \A i \in 1..Len(m_results) : ~batch_dirs[i].records => ~m_results[i]
    /\ m_pc = "done" =>
          /\ batch_dirs # <<>> => Len(m_results) = Len(batch_dirs)
          /\ m_exit = 0 <=> \E i \in 1..Len(m_results) : m_results[i]

\* main ended with exit status 0 after three batches of which the first had
\* no records and the last succeeded
FailedBatchDoesNotStopRunWitness ==
    /\ m_pc = "done"
    /\ Len(batch_dirs) = 3
    /\ ~batch_dirs[1].records
    /\ m_results = <<FALSE, FALSE, TRUE>>
    /\ m_exit = 0

\* C11: when calculate_statistics returns statistics, the overall bucket has
\* min <= q25 <= median <= q75 <= max.
QuartilesOrdered ==
    s_pc = "stats" =>
        /\ s_overall.min <= s_overall.q25
        /\ s_overall.q25 <= s_overall.median
        /\ s_overall.median <= s_overall.q75
        /\ s_overall.q75 <= s_overall.max

\* statistics were returned for three distinct values: the quartiles lie
\* strictly between the neighbouring statistics
QuartilesOrderedWitness ==
    /\ s_pc = "stats"
    /\ s_overall.count = 3
    /\ s_overall.min < s_overall.q25
    /\ s_overall.q25 < s_overall.median
    /\ s_overall.median < s_overall.q75
    /\ s_overall.q75 < s_overall.max

\* C12: in every bucket of the returned statistics that holds exactly one
\* sample, the overall one and each wafer's, std is 0.0 and not NaN.
SingleSampleStdIsZero ==
    s_pc = "stats" =>
        /\ s_overall.count = 1 => s_overall.std = ZeroStd
        /\ \A w \in DOMAIN s_by_lot :
              s_by_lot[w].count = 1 => s_by_lot[w].std = ZeroStd

\* C13: calculate_statistics returns None exactly when there is no table, the
\* parameter is not a column or the column has no non-missing value; otherwise
\* overall.count is the number of non-missing values.
NoneIffNoSamples ==
    s_pc \in {"none", "stats"} =>
        LET N == Cardinality({i \in 1..Len(s_rows) : s_rows[i].value # NONE})
        IN  /\ s_pc = "none" <=> (s_column # "present" \/ N = 0)
            /\ s_pc = "stats" => s_overall.count = N

\* statistics were returned for a column with two values and a missing one
NoneIffNoSamplesWitness ==
    /\ s_pc = "stats"
    /\ Len(s_rows) = 3
    /\ s_overall.count = 2

\* C14: whenever _parse_file has located a data-start row, its index is
\* strictly greater than the header row's, its first tab-separated field is
\* all digits, and every record comes from a line at or after it.
DataStartAfterHeader ==
    /\ l_pc \in {"data", "done"} => l_start # 0
    /\ l_start # 0 =>
          /\ l_start > l_header
          /\ l_header > 0
          /\ l_lines[l_start].first = "digits"
          /\ \A k \in 1..Len(l_records) : l_records[k] >= l_start

\* a file whose header is followed by a digit-led line that is not a data row,
\* then by a data row that became a record
DataStartAfterHeaderWitness ==
    /\ l_pc = "done"
    /\ l_header = 1
    /\ l_lines[2].first \in {"digits", "mixed"}
    /\ l_start = 3
    /\ l_records = <<3>>

\* C15: for a parameter outside the resistance and leakage families, a limit
\* field made of a numeric literal and an alphabetic unit suffix parses to the
\* literal's value and the unit suffix in lower case ("900.0V" gives 900.0, "v").
GenericUnitLowerCased ==
    (/\ p_pc = "returned"
     /\ p_param \notin {"RDSON1"} \cup CurrentParams
     /\ p_tok.kind = "num"
     /\ p_tok.unit # "")
    => p_result = [value |-> p_tok.num, unit |-> Lower(p_tok.unit)]

NoNumberGivesNoLimit ==
    (p_pc = "returned" /\ p_tok.kind # "num") => p_result = NoLimit

\* C18: under the standard strategy a value receives one of the four flags
\* outlier_high, spec_high, outlier_low, spec_low only if it lies beyond the
\* nominal limit (above upper or below lower), whatever the sign of the limits.
FlagsOnlyBeyondLimits ==
    (c_result = "table" /\ c_strategy = "standard") =>
        \A i \in 1..Len(c_returned) :
            c_returned[i].flags
              \cap {"outlier_high", "spec_high", "outlier_low", "spec_low"} # {}
            => \/ c_limits.upper # NONE /\ Gt(c_returned[i].value, c_limits.upper)
               \/ c_limits.lower # NONE /\ Lt(c_returned[i].value, c_limits.lower)

\* C19: for RDSON1 the target unit is milli-ohms exactly when the limit is
\* greater than 5, and the conversion of the values follows the same decision:
\* no record is tagged "mohm" while its value was converted to ohms, nor
\* tagged "ohm" while its value was converted to milli-ohms.
TagMatchesConversion ==
    (j_pc = "done" /\ j_param = "RDSON1") =>
        /\ j_target # "" =>
              (j_target = "mohm" <=> Gt(parse_limit_value(j_limit).value, Dec(5, 0)))
        /\ \A i \in 1..Len(j_items) :
              (j_raw[i] # NONE /\ j_items[i].has_limit /\ j_target # "") =>
                 /\ j_items[i].unit = "mohm" =>
                       /\ j_items[i].value # Shift(j_raw[i], -6)
                       /\ Lt(j_raw[i], Dec(1000, 0)) =>
                             j_items[i].value # Shift(j_raw[i], -3)
                 /\ j_items[i].unit = "ohm" =>
                       j_items[i].value # Shift(j_raw[i], 3)

\* C20: for a voltage parameter whose limit is stated in volts, adjust_unit
\* never multiplies a value by 1000 on account of its ratio to the limit.
VoltLimitNoRatioScaling ==
    (/\ n_passes = 1
     /\ n_param \in VoltageParams
     /\ parse_limit_value(n_limit).unit = "v"
     /\ n_raw # Zero)
    => n_value # Shift(n_raw, 3)

\* the first of the ten lines following the header (line 1) whose marker kind
\* satisfies the test, 0 when there is none
FirstMarked(lines, upper) ==
    LET hits == {i \in 2..Min(11, Len(lines)) :
                    IF upper THEN HasUpperMarker(lines[i])
                    ELSE HasLowerMarker(lines[i])}
    IN  IF hits = {} THEN 0 ELSE CHOOSE i \in hits : \A j \in hits : i <= j

\* C21: the upper-limit row chosen is the first line containing an upper
\* marker among the 10 lines following the header, the lower-limit row the
\* first one containing a lower marker; a later match never replaces an
\* earlier one and a line beyond the window is never chosen.
FirstLimitRowWins ==
    w_pc = "done" =>
        /\ w_upper = FirstMarked(w_lines, TRUE)
        /\ w_lower = FirstMarked(w_lines, FALSE)

\* C22: the header row chosen is the first line containing the anchor; without
\* one, the first line whose tab-separated fields include at least three
\* target parameter names; with neither, the file gives no records.
HeaderIsAnchorOrParamFields ==
    l_pc # "ready" =>
        LET anchor == FirstLine(l_lines, {"nou"})
            named == FirstLine(l_lines, {"params"})
        IN  /\ l_header = IF anchor # 0 THEN anchor ELSE named
            /\ (anchor = 0 /\ named = 0) => (l_pc = "empty" /\ l_records = <<>>)

ConversionUniformInFile ==
    \A p \in {"RDSON1"} \cup LeakageParams :
        LET Converted(k) ==
                /\ p \in DOMAIN data_records[k].vals
                /\ data_records[k].vals[p]
                     = Shift(CellAt(data_records[k].line, p).num,
                             IF p = "RDSON1" THEN 3 ELSE 9)
        IN  (\E k \in 1..Len(data_records) : Converted(k))
            => \A k \in 1..Len(data_records) :
                  p \in DOMAIN data_records[k].vals => Converted(k)

\* C29: a file with only one of the two limit rows contributes no limit for
\* any parameter, and its data records are extracted all the same.
OneLimitRowGivesNoLimits ==
    ~BothLimitRows =>
        /\ DOMAIN limits = {}
        /\ \A i \in 1..Len(f_lines) :
              (f_lines[i].kind = "data" /\ HasValidCell(i))
              => \E k \in 1..Len(data_records) : data_records[k].line = i

\* a file with an upper limit row and no lower one was read to its end: it
\* has no limits and two records
OneLimitRowGivesNoLimitsWitness ==
    /\ f_pc = "done"
    /\ f_limit_u # <<>>
    /\ f_limit_l = <<>>
    /\ DOMAIN limits = {}
    /\ Len(data_records) = 2

\* C25: export_json(export_by_param=True) run after clean() writes exactly
\* one record for every row whose value of the parameter is not missing, and
\* the value written is the value held in the cleaned table.
ExportKeepsCleanValues ==
    x_pc = "exported" =>
        /\ \A i \in 1..Len(x_clean) :
              x_clean[i] # NONE =>
                 Cardinality({k \in 1..Len(x_records) : x_records[k].row = i}) = 1
        /\ \A k \in 1..Len(x_records) :
              /\ x_clean[x_records[k].row] # NONE
              /\ x_records[k].value = x_clean[x_records[k].row]

\* C26: when every file states lower <= upper for the parameter, the returned
\* limits have lower <= upper for every parameter that has both.
AggregatedLimitsOrdered ==
    a_pc = "returned" =>
        \A p \in DOMAIN all_limits :
            (all_limits[p].upper # NONE /\ all_limits[p].lower # NONE)
            => Le(all_limits[p].lower, all_limits[p].upper)

\* C27: the value stored for a parameter is the cell at the tab position its
\* name has in the header line, also when empty header fields precede it.
ValueAtHeaderPosition ==
    h_pc = "done" =>
        \A k \in 1..Len(h_records) :
            h_records[k].vals =
                ExtractFrom(1, h_header,
                    Padded(h_lines[h_records[k].line], Len(h_header)),
                    [vals |-> EmptyDict, units |-> FileUnits(h_limits),
                     valid |-> 0]).vals

\* C28: the limit token of a parameter is the one at its own position in the
\* limit row; a row with fewer fields than that position gives a null limit.
ShortLimitRowGivesNull ==
    h_pc = "done" =>
        \A p \in DOMAIN h_limits :
            LET i == IndexOf(h_names, p)
            IN  h_limits[p].upper =
                    IF i > Len(h_limit_u) THEN NONE
                    ELSE _parse_limit_value(h_limit_u[i], p).value

\* C30: parse_limit_value on a unit-less numeric limit returns the number's
\* full value and an empty unit, also when str() renders it with an exponent.
UnitlessLimitParsedWhole ==
    (n_passes >= 1 /\ n_limit.unit = "") =>
        parse_limit_value(n_limit) = [value |-> n_limit.num, unit |-> ""]

=============================================================================
